---- MODULE Spec2Model ----
(***************************************************************************)
(* The type registry of gonnotation (package types): ProcessResult's       *)
(* AddTypeSpec / AddFuncDecl / AddConstBlock handlers, GetOrCreateTypeInfo, *)
(* NewTypeInfoFromExpr, parseFields and the usage tracker, as a state       *)
(* machine over a heap of TypeInfo nodes (pointer identity = heap index).   *)
(* Recursive calls of the code are an explicit call stack of frames.        *)
(***************************************************************************)
EXTENDS Integers, Sequences, FiniteSets, TLC

VARIABLES
  pkg,          \* the package being parsed (its declarations are PackageOf(pkg))
  nodes,        \* the heap of TypeInfo values; a *TypeInfo is an index, 0 is nil
  Types,        \* ProcessContext.Types: canonical name -> *TypeInfo
  ConstsByType, \* ProcessContext.ConstsByType: type name -> []EnumValue
  stack,        \* the call stack of the handler that is running
  cb,           \* the locals of AddConstBlock while it runs
  fault,        \* "none", or the runtime panic that ended the run
  phase,        \* "register" until detectEnums ran, then "detected"
  regs,         \* the names of the declarations handed to a handler so far
  firstNode,    \* history: canonical name -> the node its first registration created
  keyDenots,    \* history: canonical name -> the types stored under or resolved to it
  lastResolve,  \* history: the last GetOrCreateTypeInfo call and its result
  orch          \* the Orchestrator of a generation in referenced mode, and its locals

vars == <<pkg, nodes, Types, ConstsByType, stack, cb, fault, phase, regs, firstNode, keyDenots, lastResolve, orch>>

(***************************************************************************)
(* Bounds                                                                  *)
(***************************************************************************)
\* number of top-level declarations one run registers
MaxRegs == 3
\* number of ValueSpecs in an enumerated const block
MaxSpecs == 3

(***************************************************************************)
(* go/ast expressions                                                      *)
(***************************************************************************)
Ident(n) == [k |-> "Ident", name |-> n]
Star(x) == [k |-> "Star", x |-> x]
Selector(x, sel) == [k |-> "Selector", x |-> x, sel |-> sel]
ArrayType(elt) == [k |-> "Array", hasLen |-> FALSE, elt |-> elt]
MapType(key, value) == [k |-> "Map", key |-> key, value |-> value]
StructType(fields) == [k |-> "Struct", fields |-> fields]
InterfaceType(methods) == [k |-> "Interface", methods |-> methods]
\* a generic instantiation: X[Index] and X[Indices...]
IndexExpr(x, index) == [k |-> "Index", x |-> x, indices |-> <<index>>]
IndexListExpr(x, indices) == [k |-> "IndexList", x |-> x, indices |-> indices]
\* ast.Field of a struct: names (empty = embedded) and type
Field(names, type) == [names |-> names, type |-> type]
\* one name of a parameter or result list entry ("" = unnamed)
Param(name, type) == [name |-> name, type |-> type]
\* a method: of an interface (name, signature) or a FuncDecl with a receiver
Method(name, params, results) == [name |-> name, embedded |-> FALSE, params |-> params, results |-> results]
\* an embedded interface inside an interface's method list (no names)
EmbeddedMethod(type) == [name |-> "", embedded |-> TRUE, type |-> type]

\* the absent *ast.TypeSpec
NoSpec == [isSpec |-> FALSE, name |-> "", assign |-> FALSE, typeParams |-> <<>>, type |-> [k |-> "nil"]]
TypeSpec(name, type) == [isSpec |-> TRUE, name |-> name, assign |-> FALSE, typeParams |-> <<>>, type |-> type]
AliasSpec(name, type) == [isSpec |-> TRUE, name |-> name, assign |-> TRUE, typeParams |-> <<>>, type |-> type]
\* a declaration with a type parameter list; a type parameter is [name, constraint]
GenericSpec(name, typeParams, type) == [isSpec |-> TRUE, name |-> name, assign |-> FALSE, typeParams |-> typeParams, type |-> type]
FuncDecl(name, params, results) == [name |-> name, params |-> params, results |-> results]

\* the import path of a loaded package (packages.Package.PkgPath); the roots of a run over
\* two patterns are the packages models and other of the module ex.com/m
PathOf(p) ==
  CASE p \in {"m1", "n1"} -> "ex.com/m/models"
    [] p \in {"m2", "n2"} -> "ex.com/m/other"
    [] OTHER -> "p"

\* the package the declaration being handled lives in (pkg.PkgPath)
PkgPath == PathOf(pkg)

\* the imports of a package: the name a file uses for an import, and its import path
ImportsOf(p) ==
  CASE p \in {"m1", "n1"} -> {<<"other", "ex.com/m/other">>, <<"time", "time">>}
    [] p \in {"m2", "n2"} -> {<<"util", "ex.com/m/util">>, <<"xm", "gh.com/x/models">>}
    [] OTHER -> {}

(***************************************************************************)
(* The declarations a run may register                                     *)
(***************************************************************************)
\* type D struct { Next *D; Val int }
DeclD == TypeSpec("D", StructType(<<Field(<<"Next">>, Star(Ident("D"))), Field(<<"Val">>, Ident("int"))>>))
\* type R struct { Self R }
DeclR == TypeSpec("R", StructType(<<Field(<<"Self">>, Ident("R"))>>))
\* type A struct { b B; list []B }
DeclA == TypeSpec("A", StructType(<<Field(<<"b">>, Ident("B")), Field(<<"list">>, ArrayType(Ident("B")))>>))
\* type B struct { a *A; idx map[string]A }
DeclB == TypeSpec("B", StructType(<<Field(<<"a">>, Star(Ident("A"))), Field(<<"idx">>, MapType(Ident("string"), Ident("A")))>>))
\* type E struct { B; cfg struct { on bool; in struct { e *E } } }
DeclE == TypeSpec("E", StructType(<<Field(<<>>, Ident("B")), Field(<<"cfg">>, StructType(<<Field(<<"on">>, Ident("bool")), Field(<<"in">>, StructType(<<Field(<<"e">>, Star(Ident("E")))>>))>>))>>))
\* type W struct { cfg struct { w D } }
DeclW == TypeSpec("W", StructType(<<Field(<<"cfg">>, StructType(<<Field(<<"w">>, Ident("D"))>>))>>))
\* type I interface { Get(a A) (r *I); J }
DeclI == TypeSpec("I", InterfaceType(<<Method("Get", <<Param("a", Ident("A"))>>, <<Param("r", Star(Ident("I")))>>), EmbeddedMethod(Ident("J"))>>))
\* type J interface { Put(i I) }
DeclJ == TypeSpec("J", InterfaceType(<<Method("Put", <<Param("i", Ident("I"))>>, <<>>)>>))
\* type L []A
DeclL == TypeSpec("L", ArrayType(Ident("A")))
\* type X = A
DeclX == AliasSpec("X", Ident("A"))

\* func F(a A, d *D) (r B)
FuncF == FuncDecl("F", <<Param("a", Ident("A")), Param("d", Star(Ident("D")))>>, <<Param("r", Ident("B"))>>)

\* func (d *D) Link(n *D) B   -- the FuncDecls with a receiver in the file, by receiver type name
FileMethods(typeName) == IF typeName = "D" THEN <<Method("Link", <<Param("n", Star(Ident("D")))>>, <<Param("", Ident("B"))>>)>> ELSE <<>>

(***************************************************************************)
(* utils                                                                   *)
(***************************************************************************)
BasicTypes == {"any", "bool", "byte", "complex128", "complex64", "error", "float32", "float64", "int", "int16", "int32", "int64", "int8", "interface{}", "rune", "string", "uint", "uint16", "uint32", "uint64", "uint8", "uintptr"}

IsBasicType(typeName) == typeName \in BasicTypes

\* ResolvePackagePathFromImports: the import the alias names, or the alias itself
ResolvePackagePathFromImports(pkgAlias) ==
  IF \E imp \in ImportsOf(pkg) : imp[1] = pkgAlias
  THEN (CHOOSE imp \in ImportsOf(pkg) : imp[1] = pkgAlias)[2]
  ELSE pkgAlias

\* strings.Join
RECURSIVE Join(_, _)
Join(strs, sep) ==
  IF strs = <<>> THEN ""
  ELSE IF Len(strs) = 1 THEN strs[1]
  ELSE strs[1] \o sep \o Join(Tail(strs), sep)

RECURSIVE GetCanonicalNameFromExpr(_, _)
GetCanonicalNameFromExpr(expr, typeName) ==
  IF typeName # ""
  THEN IF ~IsBasicType(typeName) THEN PkgPath \o "." \o typeName ELSE typeName
  ELSE CASE expr.k = "Ident" -> IF ~IsBasicType(expr.name) THEN PkgPath \o "." \o expr.name ELSE expr.name
         [] expr.k = "Selector" -> ResolvePackagePathFromImports(expr.x) \o "." \o expr.sel
         [] expr.k = "Star" -> GetCanonicalNameFromExpr(expr.x, typeName)
         [] expr.k \in {"Index", "IndexList"} ->
              GetCanonicalNameFromExpr(expr.x, "") \o "["
              \o Join([i \in 1..Len(expr.indices) |-> GetCanonicalNameFromExpr(expr.indices[i], "")], ",") \o "]"
         [] OTHER -> PkgPath \o ".anonymous"

(***************************************************************************)
(* TypeInfo nodes                                                          *)
(***************************************************************************)
\* the nil *TypeInfo (heap index 0 is the nil pointer)
NilNode == [kind |-> "nil"]

NilAst == [k |-> "nil"]
\* &ast.StructType{}: a struct type literal without a field list
PlaceholderStruct == [k |-> "placeholder"]

EmptyUsage == [isOnlyEmbedded |-> FALSE, embeddedIn |-> <<>>, referencedIn |-> <<>>]

\* the base TypeInfo literal of NewTypeInfoFromExpr
BaseTypeInfo(canonicalName, typeName, spec) ==
  [cname |-> canonicalName, name |-> typeName, kind |-> "", pkgPath |-> "",
   isAlias |-> FALSE, isGenericInstantiation |-> FALSE,
   isGeneric |-> FALSE, typeParams |-> <<>>,
   baseGenericType |-> 0, baseGenericTypeRef |-> "", typeArguments |-> <<>>, typeArgumentRefs |-> <<>>,
   typeSpec |-> spec, structType |-> NilAst, interfaceType |-> NilAst,
   fields |-> <<>>, methods |-> <<>>, enumValues |-> <<>>,
   aliasTarget |-> 0, elementType |-> 0, keyType |-> 0,
   functionSig |-> NilAst, usage |-> EmptyUsage, includeType |-> "", depth |-> -1]

RECURSIVE NewTypeInfoFromExpr(_, _, _)
NewTypeInfoFromExpr(expr, typeName, spec) ==
  IF expr.k = "Star" THEN NewTypeInfoFromExpr(expr.x, "", spec)
  ELSE
    LET canonicalName == IF typeName # "" /\ ~IsBasicType(typeName) THEN PkgPath \o "." \o typeName ELSE typeName
        base == BaseTypeInfo(canonicalName, typeName, spec)
        ti == IF spec.isSpec /\ spec.typeParams # <<>>
              THEN [base EXCEPT !.isGeneric = TRUE,
                                !.typeParams = [i \in 1..Len(spec.typeParams) |->
                                                  [name |-> spec.typeParams[i].name, constraint |-> 0, typeRef |-> ""]]]
              ELSE base
        local == [ti EXCEPT !.pkgPath = PkgPath]
    IN IF spec.isSpec /\ spec.assign
       THEN [base EXCEPT !.pkgPath = PkgPath, !.kind = "alias", !.isAlias = TRUE]
       ELSE CASE expr.k = "Struct" -> [local EXCEPT !.kind = "struct", !.structType = expr]
              [] expr.k = "Interface" -> [local EXCEPT !.kind = "interface", !.interfaceType = expr]
              [] expr.k = "Ident" ->
                   IF typeName # ""
                   THEN [local EXCEPT !.kind = "struct", !.cname = PkgPath \o "." \o typeName]
                   ELSE IF IsBasicType(expr.name) THEN NilNode
                   ELSE [local EXCEPT !.kind = "struct", !.name = expr.name, !.cname = PkgPath \o "." \o expr.name]
              [] expr.k = "Selector" ->
                   [ti EXCEPT !.kind = "struct", !.name = IF typeName = "" THEN expr.sel ELSE typeName,
                              !.pkgPath = ResolvePackagePathFromImports(expr.x),
                              !.cname = ResolvePackagePathFromImports(expr.x) \o "." \o expr.sel]
              [] expr.k = "Array" -> [local EXCEPT !.kind = IF expr.hasLen THEN "array" ELSE "slice", !.structType = PlaceholderStruct]
              [] expr.k = "Map" -> [local EXCEPT !.kind = "map", !.structType = PlaceholderStruct]
              [] expr.k \in {"Index", "IndexList"} ->
                   [local EXCEPT !.kind = "struct", !.isGenericInstantiation = TRUE, !.structType = PlaceholderStruct]
              [] OTHER -> [local EXCEPT !.kind = "struct"]

\* a recomputation that leaves the flag as it is
KeepUsageFlags(u) == u

\* UpdateUsageFlags on a UsageInfo value
UpdateUsageFlags(u) == [u EXCEPT !.isOnlyEmbedded = Len(u.embeddedIn) > 0 /\ Len(u.referencedIn) = 0]

ReferenceInfo(refType, name, kind) == [refType |-> refType, name |-> name, kind |-> kind]

\* trackEmbeddedUsage(embeddedType = heap[id], parentType.CannonicalName = parent)
trackEmbeddedUsage(heap, id, parent) ==
  IF id = 0 THEN heap
  ELSE [heap EXCEPT ![id].usage = UpdateUsageFlags([@ EXCEPT !.embeddedIn = Append(@, ReferenceInfo(parent, "", "embedded"))])]

\* trackFieldUsage / trackParameterUsage / trackReturnUsage: one ReferencedIn edge of the given kind
trackReferenceUsage(heap, id, refType, name, kind) ==
  IF id = 0 THEN heap
  ELSE [heap EXCEPT ![id].usage = UpdateUsageFlags([@ EXCEPT !.referencedIn = Append(@, ReferenceInfo(refType, name, kind))])]

(***************************************************************************)
(* The registry: ProcessContext.Types                                      *)
(***************************************************************************)
\* a lookup that never finds an entry
CacheLookupMiss(types, key) == 0

\* cached, exists := ctx.Types[canonicalName]  (0 = not cached)
CacheLookup(types, key) == IF key \in DOMAIN types THEN types[key] ELSE 0

\* a store that is left out
CacheStoreSkipped(types, key, id) == types

\* ctx.Types[canonicalName] = ti
CacheStore(types, key, id) == (key :> id) @@ types

\* parseFields run on every struct node that still has its deferred AST, cached or not
NeedsParseAlways(hit, ti) == ti.kind = "struct" /\ ti.structType.k # "nil"

\* GetOrCreateTypeInfo lines 41-56: parseFields runs on a node only when the call created it
NeedsParse(hit, ti) == ~hit /\ ti.kind = "struct" /\ ti.structType.k # "nil"

\* GetOrCreateTypeInfo up to its call of parseFields: the node returned (id, 0 = nil),
\* the heap and cache after it, and whether parseFields(ti) is called on the new node
GetOrCreateTypeInfo(types, heap, expr, typeName) ==
  LET canonicalName == GetCanonicalNameFromExpr(expr, typeName)
      cached == CacheLookup(types, canonicalName)
      ti == NewTypeInfoFromExpr(expr, typeName, NoSpec)
      id == Len(heap) + 1
  IN IF cached # 0
     THEN [id |-> cached, heap |-> heap, types |-> types, parse |-> NeedsParse(TRUE, heap[cached]),
           key |-> canonicalName, hit |-> TRUE]
     ELSE IF ti.kind = "nil"
     THEN [id |-> 0, heap |-> heap, types |-> types, parse |-> FALSE, key |-> canonicalName, hit |-> FALSE]
     ELSE [id |-> id, heap |-> Append(heap, [ti EXCEPT !.cname = canonicalName]),
           types |-> CacheStore(types, canonicalName, id),
           parse |-> NeedsParse(FALSE, ti),
           key |-> canonicalName, hit |-> FALSE]

\* parseTypedElement up to the return of GetOrCreateTypeInfo
parseTypedElement(types, heap, typeExpr, name) ==
  LET t == IF typeExpr.k = "Star" THEN typeExpr.x ELSE typeExpr
      syntheticName == IF name = "" THEN "AnonymousType" ELSE name \o "Type"
  IN IF t.k \in {"Struct", "Interface"}
     THEN GetOrCreateTypeInfo(types, heap, t, syntheticName)
     ELSE GetOrCreateTypeInfo(types, heap, t, "")

\* the TypedElement parseTypedElement returns once its TypeInfo (id) is known
TypedElement(heap, typeExpr, name, id) ==
  LET t == IF typeExpr.k = "Star" THEN typeExpr.x ELSE typeExpr
  IN [name |-> name, isPointer |-> typeExpr.k = "Star", typeInfo |-> id,
      typeRef |-> IF id # 0 THEN heap[id].cname
                  ELSE IF t.k = "Ident" /\ IsBasicType(t.name) THEN t.name ELSE ""]

\* the field name NewFieldInfoFromAst gives a field
FieldName(field) ==
  IF field.names # <<>> THEN field.names[1]
  ELSE CASE field.type.k = "Ident" -> field.type.name
         [] field.type.k = "Selector" -> field.type.sel
         [] OTHER -> "EmbeddedField"

\* scanOptions.StructMethods is neither none nor disabled (the default configuration)
shouldScanStructMethods == TRUE

(***************************************************************************)
(* Work items: the statements of a handler that are still to run, in order *)
(***************************************************************************)
NoMeth == [name |-> "", parms |-> <<>>, returns |-> <<>>]

ParamItems(w, ps, refType) == [i \in 1..Len(ps) |-> [w |-> w, name |-> ps[i].name, type |-> ps[i].type, refType |-> refType]]

RECURSIVE FlattenItems(_)
FlattenItems(ss) == IF ss = <<>> THEN <<>> ELSE Head(ss) \o FlattenItems(Tail(ss))

\* parseMethods: the receiver methods of the file; only named parameters are parsed
NamedOnly(ps) == SelectSeq(ps, LAMBDA p : p.name # "")

StructMethodItems(n) ==
  FlattenItems([i \in 1..Len(FileMethods(n.name)) |->
     LET m == FileMethods(n.name)[i]
     IN <<[w |-> "methodBegin", name |-> m.name]>>
        \o ParamItems("param", NamedOnly(m.params), n.cname)
        \o ParamItems("return", m.results, n.cname)
        \o <<[w |-> "methodEnd"]>>])

InterfaceMethodItems(n) ==
  FlattenItems([i \in 1..Len(n.interfaceType.methods) |->
     LET m == n.interfaceType.methods[i]
     IN IF m.embedded THEN <<[w |-> "embeddedIface", type |-> m.type]>>
        ELSE <<[w |-> "methodBegin", name |-> m.name]>>
             \o ParamItems("param", m.params, n.cname \o "." \o m.name)
             \o ParamItems("return", m.results, n.cname \o "." \o m.name)
             \o <<[w |-> "methodEnd"]>>])

ContainerItems(n) ==
  IF ~n.typeSpec.isSpec THEN <<>>
  ELSE CASE n.typeSpec.type.k = "Array" -> <<[w |-> "containerElt", type |-> n.typeSpec.type.elt, label |-> "element"]>>
         [] n.typeSpec.type.k = "Map" -> <<[w |-> "containerKey", type |-> n.typeSpec.type.key],
                                           [w |-> "containerElt", type |-> n.typeSpec.type.value, label |-> "value"]>>
         [] OTHER -> <<>>

\* the branch of parseFields taken for node n, as the statements it runs
parseFields(n) ==
  IF n.kind = "struct" /\ n.structType.k = "Struct"
  THEN [i \in 1..Len(n.structType.fields) |-> [w |-> "field", field |-> n.structType.fields[i]]]
       \o (IF n.name # "" /\ shouldScanStructMethods THEN StructMethodItems(n) ELSE <<>>)
       \o <<[w |-> "clearStructType"]>>
  ELSE IF n.kind \in {"array", "slice", "map"} /\ n.structType.k # "nil"
  THEN ContainerItems(n) \o <<[w |-> "clearStructType"]>>
  ELSE IF n.kind = "interface" /\ n.interfaceType.k = "Interface"
  THEN InterfaceMethodItems(n) \o <<[w |-> "clearInterfaceType"]>>
  ELSE <<>>

\* parseAliasTarget: the alias target is resolved when the node is an alias without one
parseAliasTarget(n) ==
  IF n.isAlias /\ n.typeSpec.isSpec /\ n.aliasTarget = 0
  THEN <<[w |-> "aliasTarget", type |-> n.typeSpec.type]>>
  ELSE <<>>

\* parseTypeParams: the constraint of every type parameter is resolved
parseTypeParams(n) ==
  IF n.typeSpec.isSpec
  THEN [i \in 1..Len(n.typeSpec.typeParams) |-> [w |-> "typeParam", index |-> i, type |-> n.typeSpec.typeParams[i].constraint]]
  ELSE <<>>

\* parseGenericInstantiation: the base and every type argument are resolved, then the
\* kind, fields and methods of the base are taken over
parseGenericInstantiation(n) ==
  IF ~n.isGenericInstantiation \/ ~n.typeSpec.isSpec \/ n.typeSpec.type.k \notin {"Index", "IndexList"} THEN <<>>
  ELSE <<[w |-> "genericBase", type |-> n.typeSpec.type.x]>>
       \o [i \in 1..Len(n.typeSpec.type.indices) |-> [w |-> "genericArg", type |-> n.typeSpec.type.indices[i]]]
       \o <<[w |-> "genericInherit"]>>

\* the end of parseGenericInstantiation on ti = heap[id]
InheritFromBase(heap, id) ==
  LET b == heap[id].baseGenericType
  IN IF b = 0 THEN heap
     ELSE [heap EXCEPT ![id].kind = heap[b].kind,
                       ![id].fields = IF Len(heap[b].fields) > 0 THEN heap[b].fields ELSE @,
                       ![id].methods = IF Len(heap[b].methods) > 0 THEN heap[b].methods ELSE @]

\* the items whose first statement is a call of GetOrCreateTypeInfo
ResolveItems == {"field", "param", "return", "aliasTarget", "containerElt", "containerKey", "embeddedIface",
                 "typeParam", "genericBase", "genericArg"}

\* the call of GetOrCreateTypeInfo an item starts with
ItemResolve(types, heap, item) ==
  CASE item.w = "field" -> parseTypedElement(types, heap, item.field.type, "")
    [] item.w \in {"param", "return"} -> parseTypedElement(types, heap, item.type, item.name)
    [] OTHER -> GetOrCreateTypeInfo(types, heap, item.type, "")

\* the statements of an item after its GetOrCreateTypeInfo call returned node id:
\* the heap afterwards (ti = heap[f.node] is the node being populated)
ItemComplete(heap, f, item, id) ==
  CASE item.w = "field" ->
         LET tracked == IF item.field.names = <<>>
                        THEN trackEmbeddedUsage(heap, id, heap[f.node].cname)
                        ELSE trackReferenceUsage(heap, id, heap[f.node].cname, FieldName(item.field), "field")
             fi == [te |-> TypedElement(heap, item.field.type, FieldName(item.field), id),
                    isEmbedded |-> item.field.names = <<>>]
         IN [tracked EXCEPT ![f.node].fields = Append(@, fi)]
    [] item.w = "param" -> trackReferenceUsage(heap, id, item.refType, item.name, "parameter")
    [] item.w = "return" -> trackReferenceUsage(heap, id, item.refType, item.name, "return")
    [] item.w = "aliasTarget" -> [heap EXCEPT ![f.node].aliasTarget = id]
    [] item.w = "containerElt" ->
         [trackReferenceUsage(heap, id, heap[f.node].cname, item.label, "field") EXCEPT ![f.node].elementType = id]
    [] item.w = "containerKey" ->
         [trackReferenceUsage(heap, id, heap[f.node].cname, "key", "field") EXCEPT ![f.node].keyType = id]
    [] item.w = "typeParam" ->
         [heap EXCEPT ![f.node].typeParams[item.index].constraint = id,
                      ![f.node].typeParams[item.index].typeRef = IF id # 0 THEN heap[id].cname ELSE @]
    [] item.w = "genericBase" ->
         [heap EXCEPT ![f.node].baseGenericType = id,
                      ![f.node].baseGenericTypeRef = IF id # 0 THEN heap[id].cname ELSE @]
    [] item.w = "genericArg" ->
         [heap EXCEPT ![f.node].typeArguments = Append(@, id),
                      ![f.node].typeArgumentRefs = IF id # 0 THEN Append(@, heap[id].cname) ELSE @]
    [] item.w = "embeddedIface" ->
         IF id # 0 /\ heap[id].kind = "interface"
         THEN LET tracked == trackEmbeddedUsage(heap, id, heap[f.node].cname)
              IN [tracked EXCEPT ![f.node].methods = @ \o tracked[id].methods]
         ELSE heap

\* the FunctionInfo under construction after a parameter or result item
ItemMeth(heap, f, item, id) ==
  CASE item.w = "param" -> [f.meth EXCEPT !.parms = Append(@, TypedElement(heap, item.type, item.name, id))]
    [] item.w = "return" -> [f.meth EXCEPT !.returns = Append(@, TypedElement(heap, item.type, item.name, id))]
    [] OTHER -> f.meth

(***************************************************************************)
(* Constant groups: strings are sequences of characters                    *)
(***************************************************************************)
IotaStr == <<"i", "o", "t", "a">>

\* strings.Contains
Contains(s, sub) == \E i \in 1..(Len(s) - Len(sub) + 1) : SubSeq(s, i, i + Len(sub) - 1) = sub

\* strings.Split(s, sep) for a one-character separator
RECURSIVE Split(_, _)
Split(s, sep) ==
  IF \A i \in 1..Len(s) : s[i] # sep THEN <<s>>
  ELSE LET i == CHOOSE j \in 1..Len(s) : s[j] = sep /\ \A h \in 1..(j - 1) : s[h] # sep
       IN <<SubSeq(s, 1, i - 1)>> \o Split(SubSeq(s, i + 1, Len(s)), sep)

Digits == <<"0", "1", "2", "3", "4", "5", "6", "7", "8", "9">>

DigitVal(c) == (CHOOSE i \in 1..10 : Digits[i] = c) - 1

RECURSIVE DigitsVal(_)
DigitsVal(s) == IF s = <<>> THEN 0 ELSE DigitsVal(SubSeq(s, 1, Len(s) - 1)) * 10 + DigitVal(s[Len(s)])

IsDigits(s) == s # <<>> /\ \A i \in 1..Len(s) : \E d \in 1..10 : Digits[d] = s[i]

\* strconv.Atoi: an optional sign and decimal digits
Atoi(s) ==
  IF s # <<>> /\ s[1] \in {"+", "-"}
  THEN IF IsDigits(Tail(s)) THEN [ok |-> TRUE, n |-> IF s[1] = "-" THEN 0 - DigitsVal(Tail(s)) ELSE DigitsVal(Tail(s))]
       ELSE [ok |-> FALSE, n |-> 0]
  ELSE IF IsDigits(s) THEN [ok |-> TRUE, n |-> DigitsVal(s)] ELSE [ok |-> FALSE, n |-> 0]

\* Go's integer division truncates toward zero
GoDiv(a, b) ==
  LET abs(x) == IF x < 0 THEN 0 - x ELSE x
      q == abs(a) \div abs(b)
  IN IF (a < 0) = (b < 0) THEN q ELSE 0 - q

\* value expressions of a ValueSpec
BasicLit(kind, value) == [k |-> "BasicLit", kind |-> kind, value |-> value]
ValIdent(name) == [k |-> "Ident", name |-> name]
BinaryExpr(x, op, y) == [k |-> "Binary", x |-> x, op |-> op, y |-> y]
UnaryExpr(op, x) == [k |-> "Unary", op |-> op, x |-> x]
ValueSpec(names, type, values) == [names |-> names, type |-> type, values |-> values]

\* values of Go's `any`
StringVal(s) == [t |-> "string", s |-> s]
IntVal(n) == [t |-> "int", n |-> n]
NilVal == [t |-> "nil"]

RECURSIVE exprToString(_)
exprToString(e) ==
  CASE e.k = "Ident" -> e.name
    [] e.k = "BasicLit" -> e.value
    [] e.k = "Binary" -> exprToString(e.x) \o <<" ">> \o e.op \o <<" ">> \o exprToString(e.y)
    [] e.k = "Unary" -> e.op \o exprToString(e.x)
    [] OTHER -> <<"c", "o", "m", "p", "l", "e", "x", "_", "e", "x", "p", "r">>

\* evaluateBinaryExpr returns the expression text on both of its paths
evaluateBinaryExpr(e) == exprToString(e)

extractConstValue(e) ==
  CASE e.k = "nil" -> NilVal
    [] e.k = "BasicLit" ->
         IF e.kind = "STRING" /\ Len(e.value) >= 2
         THEN StringVal(SubSeq(e.value, 2, Len(e.value) - 1))
         ELSE StringVal(e.value)
    [] e.k = "Ident" -> StringVal(e.name)
    [] e.k = "Binary" -> StringVal(evaluateBinaryExpr(e))
    [] OTHER -> StringVal(exprToString(e))

evaluateIotaExpression(exprStr, iotaValue) ==
  IF exprStr = IotaStr THEN IntVal(iotaValue)
  ELSE IF Contains(exprStr, IotaStr)
  THEN LET parts == Split(exprStr, " ")
       IN IF Len(parts) = 3 /\ parts[1] = IotaStr /\ Atoi(parts[3]).ok
          THEN LET operand == Atoi(parts[3]).n
               IN CASE parts[2] = <<"+">> -> IntVal(iotaValue + operand)
                    [] parts[2] = <<"-">> -> IntVal(iotaValue - operand)
                    [] parts[2] = <<"*">> -> IntVal(iotaValue * operand)
                    [] parts[2] = <<"/">> /\ operand # 0 -> IntVal(GoDiv(iotaValue, operand))
                    [] OTHER -> IntVal(iotaValue)
          ELSE IntVal(iotaValue)
  ELSE StringVal(exprStr)

\* ProcessResult.resolveTypeName
resolveTypeName(typeExpr) ==
  CASE typeExpr.k = "Ident" -> IF ~IsBasicType(typeExpr.name) THEN PkgPath \o "." \o typeExpr.name ELSE typeExpr.name
    [] typeExpr.k = "Selector" -> ResolvePackagePathFromImports(typeExpr.x) \o "." \o typeExpr.sel
    [] OTHER -> ""

\* the value AddConstBlock computes for name i of a ValueSpec, and the pattern it leaves:
\* [value, last]
ConstValue(vs, i, iotaValue, lastIotaExpr) ==
  IF i <= Len(vs.values)
  THEN LET extractedValue == extractConstValue(vs.values[i])
       IN IF extractedValue.t = "string" /\ Contains(extractedValue.s, IotaStr)
          THEN [value |-> evaluateIotaExpression(extractedValue.s, iotaValue), last |-> extractedValue.s]
          ELSE [value |-> extractedValue, last |-> lastIotaExpr]
  ELSE IF lastIotaExpr # <<>>
       THEN [value |-> evaluateIotaExpression(lastIotaExpr, iotaValue), last |-> lastIotaExpr]
       ELSE [value |-> evaluateIotaExpression(IotaStr, iotaValue), last |-> lastIotaExpr]

\* a counter that stays where it is
SameIota(iotaValue) == iotaValue

\* iotaValue++ after a constant was appended
NextIota(iotaValue) == iotaValue + 1

AppendConst(consts, typeName, ev) ==
  IF typeName \in DOMAIN consts THEN [consts EXCEPT ![typeName] = Append(@, ev)]
  ELSE (typeName :> <<ev>>) @@ consts

\* the loop over valueSpec.Names from name i on; st = [iota, last, consts, fault]
RECURSIVE ConstNames(_, _, _, _, _, _)
ConstNames(vs, i, typeName, typeInfo, typeRef, st) ==
  IF i > Len(vs.names) \/ st.fault # "none" THEN st
  ELSE IF typeName = "" THEN ConstNames(vs, i + 1, typeName, typeInfo, typeRef, st)
  ELSE IF typeInfo = 0 THEN [st EXCEPT !.fault = "nil-deref"]
  ELSE LET cv == ConstValue(vs, i, st.iota, st.last)
           ev == [name |-> vs.names[i], value |-> cv.value, typeInfo |-> typeInfo, typeRef |-> typeRef]
       IN ConstNames(vs, i + 1, typeName, typeInfo, typeRef,
                     [iota |-> NextIota(st.iota), last |-> cv.last,
                      consts |-> AppendConst(st.consts, typeName, ev), fault |-> "none"])

(***************************************************************************)
(* State                                                                   *)
(***************************************************************************)
EmptyMap == [x \in {} |-> 0]

IdleCb == [active |-> FALSE, decl |-> <<>>, specs |-> <<>>, currentTypeName |-> "", currentTypeInfo |-> 0, iotaValue |-> 0, lastIotaExpr |-> <<>>]

NoResolve == [key |-> "", id |-> 0, hit |-> FALSE, builder |-> 0, asIs |-> TRUE]

\* no generation is running
IdleOrch == [pc |-> "idle"]

Frame(node, owner, todo, meth) == [node |-> node, owner |-> owner, todo |-> todo, await |-> -1, meth |-> meth]

Idle == stack = <<>> /\ ~cb.active

Top == stack[Len(stack)]

\* the node under construction (in a frame of the stack) whose canonical name is key, or 0
Builder(key) ==
  IF \E i \in 1..Len(stack) : stack[i].node # 0 /\ nodes[stack[i].node].cname = key
  THEN stack[CHOOSE i \in 1..Len(stack) : stack[i].node # 0 /\ nodes[stack[i].node].cname = key].node
  ELSE 0

\* the type an expression denotes: a pointer denotes its element's node by design
RECURSIVE Denot(_)
Denot(expr) == IF expr.k = "Star" THEN Denot(expr.x) ELSE expr

AddDenot(kd, key, d) == IF key \in DOMAIN kd THEN [kd EXCEPT ![key] = @ \cup {d}] ELSE (key :> {d}) @@ kd

RememberFirst(fn, key, id) == IF key \in DOMAIN fn THEN fn ELSE (key :> id) @@ fn

\* const ( Red Color = "red"; Green )
BlockColor == [name |-> "const Color", specs |-> <<
  ValueSpec(<<"Red">>, Ident("Color"), <<BasicLit("STRING", <<"\"", "r", "e", "d", "\"">>)>>),
  ValueSpec(<<"Green">>, NilAst, <<>>)>>]
\* const X int = 1
BlockInt == [name |-> "const int", specs |-> <<ValueSpec(<<"X">>, Ident("int"), <<BasicLit("INT", <<"1">>)>>)>>]
\* type Color string
DeclColor == TypeSpec("Color", Ident("string"))
\* type P struct { c Color }
DeclP == TypeSpec("P", StructType(<<Field(<<"c">>, Ident("Color"))>>))

\* the value expressions of a group member: none, iota, iota + 5, 5, "red"
LitRed == BasicLit("STRING", <<"\"", "r", "e", "d", "\"">>)
LitFive == BasicLit("INT", <<"5">>)
IotaPlusFive == BinaryExpr(ValIdent(IotaStr), <<"+">>, LitFive)
ValueShapes == {<<>>, <<ValIdent(IotaStr)>>, <<IotaPlusFive>>, <<LitFive>>, <<LitRed>>}

\* a member carries the type Color or no type
TypeShapes == {NilAst, Ident("Color")}

MemberNames == <<"A", "B", "C", "D", "E">>

\* the const groups of n single-name members
Groups(n) ==
  {[i \in 1..n |-> ValueSpec(<<MemberNames[i]>>, f[i][1], f[i][2])] : f \in [1..n -> TypeShapes \X ValueShapes]}

AllGroups == {[name |-> "const group", specs |-> g] : g \in UNION {Groups(n) : n \in 1..MaxSpecs}}

\* type Character interface { GetName() (ret string) }
DeclCharacter == TypeSpec("Character", InterfaceType(<<Method("GetName", <<>>, <<Param("ret", Ident("string"))>>)>>))
\* Node[T, P] and Node[Character, int]
NodeOfParams == IndexListExpr(Ident("Node"), <<Ident("T"), Ident("P")>>)
NodeOfCharacterInt == IndexListExpr(Ident("Node"), <<Ident("Character"), Ident("int")>>)
\* type Node[T Character, P any] struct { Value T; Key P; Next *Node[T, P] }
DeclNode == GenericSpec("Node", <<[name |-> "T", constraint |-> Ident("Character")], [name |-> "P", constraint |-> Ident("any")]>>,
                        StructType(<<Field(<<"Value">>, Ident("T")), Field(<<"Key">>, Ident("P")),
                                     Field(<<"Next">>, Star(NodeOfParams))>>))
\* type XNode Node[Character, int]
DeclXNode == TypeSpec("XNode", NodeOfCharacterInt)
\* func Use(n Node[Character, int])
FuncUse == FuncDecl("Use", <<Param("n", NodeOfCharacterInt)>>, <<>>)

\* a member carries no type, one of two declared types, or a builtin type
AnchorTypes == {NilAst, Ident("Color"), Ident("Shade"), Ident("int")}

\* a member has no value or the bare marker
MarkerShapes == {<<>>, <<ValIdent(IotaStr)>>}

\* the const groups of n single-name members over these types
AnchorGroupsOf(n) ==
  {[i \in 1..n |-> ValueSpec(<<MemberNames[i]>>, f[i][1], f[i][2])] : f \in [1..n -> AnchorTypes \X MarkerShapes]}

AnchorGroups == {[name |-> "const group", specs |-> g] : g \in UNION {AnchorGroupsOf(n) : n \in 1..MaxSpecs}}

\* package models:  type S struct { o *other.O; at time.Time }
DeclS == TypeSpec("S", StructType(<<Field(<<"o">>, Star(Selector("other", "O"))), Field(<<"at">>, Selector("time", "Time"))>>))
\* package other:  type O struct { util.U; t xm.Thing }
DeclO == TypeSpec("O", StructType(<<Field(<<>>, Selector("util", "U")), Field(<<"t">>, Selector("xm", "Thing"))>>))
\* package other:  func Make(u util.U) (o O)
FuncMake == FuncDecl("Make", <<Param("u", Selector("util", "U"))>>, <<Param("o", Ident("O"))>>)

Package(types, funcs, consts) == [types |-> types, funcs |-> funcs, consts |-> consts]

\* the packages a run may parse, by name
PackageOf(p) ==
  CASE p = "self" -> Package({DeclD, DeclR, DeclW}, {FuncF}, {})
    [] p = "cycle" -> Package({DeclA, DeclB, DeclE, DeclL}, {}, {})
    [] p = "iface" -> Package({DeclI, DeclJ, DeclX, DeclA}, {}, {})
    [] p = "enum" -> Package({DeclColor, DeclP}, {}, {BlockColor, BlockInt})
    [] p = "groups" -> Package({DeclColor}, {}, AllGroups)
    [] p = "anchors" -> Package({DeclColor}, {}, AnchorGroups)
    [] p = "generic" -> Package({DeclCharacter, DeclNode, DeclXNode}, {FuncUse}, {})
    [] p \in {"m1", "n1"} -> Package({DeclS, DeclColor}, {}, {BlockColor})
    [] p \in {"m2", "n2"} -> Package({DeclO}, {FuncMake}, {})

Packages == {"self", "cycle", "iface", "enum"}

Init ==
  /\ pkg \in Packages
  /\ nodes = <<>>
  /\ Types = EmptyMap
  /\ ConstsByType = EmptyMap
  /\ stack = <<>>
  /\ cb = IdleCb
  /\ fault = "none"
  /\ phase = "register"
  /\ regs = <<>>
  /\ firstNode = EmptyMap
  /\ keyDenots = EmptyMap
  /\ lastResolve = NoResolve
  /\ orch = IdleOrch

(***************************************************************************)
(* Handlers                                                                *)
(***************************************************************************)
\* shouldScanType / shouldScanFunctions / shouldScanEnums under the default configuration
shouldScanType == TRUE
shouldScanFunctions == TRUE
shouldScanEnums == TRUE

CanRegister == fault = "none" /\ phase = "register" /\ Idle /\ Len(regs) < MaxRegs

\* AddTypeSpec up to its first deferred parse: the node is created and cached,
\* the parse calls are the frame's statements
AddTypeSpec(spec) ==
  /\ CanRegister
  /\ shouldScanType
  /\ regs' = Append(regs, spec.name)
  /\ LET ti == NewTypeInfoFromExpr(spec.type, spec.name, spec)
         id == Len(nodes) + 1
     IN IF ti.kind = "nil"
        THEN UNCHANGED <<nodes, Types, stack, firstNode, keyDenots>>
        ELSE /\ nodes' = Append(nodes, ti)
             /\ Types' = CacheStore(Types, ti.cname, id)
             /\ stack' = <<Frame(id, ti.cname,
                                     parseTypeParams(ti) \o parseAliasTarget(ti) \o parseGenericInstantiation(ti)
                                     \o <<[w |-> "parseFields"]>>, NoMeth)>>
             /\ firstNode' = RememberFirst(firstNode, ti.cname, id)
             /\ keyDenots' = AddDenot(keyDenots, ti.cname, Ident(spec.name))
  /\ UNCHANGED <<orch, pkg, ConstsByType, cb, fault, phase, lastResolve>>

\* AddFuncDecl up to its first parseTypedElement call
AddFuncDecl(fd) ==
  /\ CanRegister
  /\ shouldScanFunctions
  /\ regs' = Append(regs, fd.name)
  /\ LET canonicalName == PkgPath \o "." \o fd.name
     IN stack' = <<Frame(0, canonicalName,
                         ParamItems("param", fd.params, canonicalName)
                         \o ParamItems("return", fd.results, canonicalName)
                         \o <<[w |-> "funcEnd", name |-> fd.name]>>,
                         [name |-> fd.name, parms |-> <<>>, returns |-> <<>>])>>
  /\ UNCHANGED <<orch, pkg, nodes, Types, ConstsByType, cb, fault, phase, firstNode, keyDenots, lastResolve>>

\* the rest of the todo list of a frame once its head statement ran
Advance(todo) == Tail(todo)

\* a statement that starts with GetOrCreateTypeInfo: either the call returns and the
\* statement completes, or the call enters parseFields of the node it created
Resolve ==
  /\ fault = "none"
  /\ stack # <<>>
  /\ Top.todo # <<>>
  /\ Top.await = -1
  /\ Head(Top.todo).w \in ResolveItems
  /\ LET n == Len(stack)
         item == Head(Top.todo)
         r == ItemResolve(Types, nodes, item)
         expr == IF item.w = "field" THEN item.field.type ELSE item.type
     IN /\ Types' = r.types
        /\ lastResolve' = [key |-> r.key, id |-> r.id, hit |-> r.hit, builder |-> Builder(r.key),
                           asIs |-> Builder(r.key) = 0 \/ r.heap[Builder(r.key)] = nodes[Builder(r.key)]]
        /\ keyDenots' = IF r.id # 0 THEN AddDenot(keyDenots, r.key, Denot(expr)) ELSE keyDenots
        /\ IF r.parse
           THEN /\ nodes' = r.heap
                /\ stack' = Append([stack EXCEPT ![n].await = r.id],
                                   Frame(r.id, r.key, <<[w |-> "parseFields"]>>, NoMeth))
           ELSE /\ nodes' = ItemComplete(r.heap, Top, item, r.id)
                /\ stack' = [stack EXCEPT ![n].todo = Advance(@), ![n].meth = ItemMeth(r.heap, Top, item, r.id)]
  /\ UNCHANGED <<orch, pkg, ConstsByType, cb, fault, phase, regs, firstNode>>

\* ti.parseFields(ctx): the branch for the node's kind is entered
Expand ==
  /\ fault = "none"
  /\ stack # <<>>
  /\ Top.todo # <<>>
  /\ Head(Top.todo).w = "parseFields"
  /\ stack' = [stack EXCEPT ![Len(stack)].todo = parseFields(nodes[Top.node]) \o Advance(@)]
  /\ UNCHANGED <<orch, pkg, nodes, Types, ConstsByType, cb, fault, phase, regs, firstNode, keyDenots, lastResolve>>

\* the FunctionInfo literal of a method, ti.AddMethod(fi), and the clearing of the deferred AST
Statement ==
  /\ fault = "none"
  /\ stack # <<>>
  /\ Top.todo # <<>>
  /\ Head(Top.todo).w \in {"methodBegin", "methodEnd", "clearStructType", "clearInterfaceType", "genericInherit"}
  /\ LET n == Len(stack)
         item == Head(Top.todo)
     IN /\ stack' = [stack EXCEPT ![n].todo = Advance(@),
                                 ![n].meth = IF item.w = "methodBegin"
                                             THEN [name |-> item.name, parms |-> <<>>, returns |-> <<>>]
                                             ELSE @]
        /\ nodes' = CASE item.w = "methodEnd" -> [nodes EXCEPT ![Top.node].methods = Append(@, Top.meth)]
                      [] item.w = "clearStructType" -> [nodes EXCEPT ![Top.node].structType = NilAst]
                      [] item.w = "clearInterfaceType" -> [nodes EXCEPT ![Top.node].interfaceType = NilAst]
                      [] item.w = "genericInherit" -> InheritFromBase(nodes, Top.node)
                      [] OTHER -> nodes
  /\ UNCHANGED <<orch, pkg, Types, ConstsByType, cb, fault, phase, regs, firstNode, keyDenots, lastResolve>>

\* the TypeInfo literal AddFuncDecl builds for the function
FuncTypeInfo(canonicalName, name, fi) ==
  [BaseTypeInfo(canonicalName, name, NoSpec) EXCEPT !.kind = "function", !.pkgPath = PkgPath,
                                                    !.functionSig = fi, !.depth = 0]

\* the end of AddFuncDecl: the function's node is built and stored
FuncEnd ==
  /\ fault = "none"
  /\ stack # <<>>
  /\ Top.todo # <<>>
  /\ Head(Top.todo).w = "funcEnd"
  /\ LET id == Len(nodes) + 1
     IN /\ nodes' = Append(nodes, FuncTypeInfo(Top.owner, Top.meth.name, Top.meth))
        /\ Types' = CacheStore(Types, Top.owner, id)
        /\ firstNode' = RememberFirst(firstNode, Top.owner, id)
        /\ keyDenots' = AddDenot(keyDenots, Top.owner, Ident(Top.meth.name))
  /\ stack' = [stack EXCEPT ![Len(stack)].todo = Advance(@)]
  /\ UNCHANGED <<orch, pkg, ConstsByType, cb, fault, phase, regs, lastResolve>>

\* a frame ran all its statements: parseFields (or the handler) returns, and the
\* caller's statement that was waiting for GetOrCreateTypeInfo completes
Return ==
  /\ fault = "none"
  /\ stack # <<>>
  /\ Top.todo = <<>>
  /\ IF Len(stack) = 1
     THEN /\ stack' = <<>>
          /\ UNCHANGED nodes
     ELSE LET n == Len(stack) - 1
              caller == stack[n]
              item == Head(caller.todo)
          IN /\ nodes' = ItemComplete(nodes, caller, item, caller.await)
             /\ stack' = Append(SubSeq(stack, 1, n - 1),
                                [caller EXCEPT !.todo = Advance(@), !.await = -1,
                                               !.meth = ItemMeth(nodes, caller, item, caller.await)])
  /\ UNCHANGED <<orch, pkg, Types, ConstsByType, cb, fault, phase, regs, firstNode, keyDenots, lastResolve>>

\* AddConstBlock up to its loop over genDecl.Specs
AddConstBlock(b) ==
  /\ CanRegister
  /\ shouldScanEnums
  /\ regs' = Append(regs, b.name)
  /\ cb' = [IdleCb EXCEPT !.active = TRUE, !.decl = b.specs, !.specs = b.specs]
  /\ UNCHANGED <<orch, pkg, nodes, Types, ConstsByType, stack, fault, phase, firstNode, keyDenots, lastResolve>>

\* a counter that an explicit type leaves alone
KeepIota(iotaValue) == iotaValue

\* iotaValue = 0 for a ValueSpec with an explicit type
ResetIota(iotaValue) == 0

\* one iteration of the loop over genDecl.Specs
ConstSpecStep ==
  /\ fault = "none"
  /\ cb.active
  /\ cb.specs # <<>>
  /\ LET vs == Head(cb.specs)
         typed == vs.type.k # "nil"
         r == IF typed THEN GetOrCreateTypeInfo(Types, nodes, vs.type, "")
              ELSE [id |-> cb.currentTypeInfo, heap |-> nodes, types |-> Types, parse |-> FALSE, key |-> "", hit |-> FALSE]
         typeName == IF typed THEN resolveTypeName(vs.type) ELSE cb.currentTypeName
         st0 == [iota |-> IF typed THEN ResetIota(cb.iotaValue) ELSE cb.iotaValue,
                 last |-> IF typed THEN <<>> ELSE cb.lastIotaExpr,
                 consts |-> ConstsByType, fault |-> "none"]
         st == ConstNames(vs, 1, typeName, r.id, IF r.id # 0 THEN r.heap[r.id].cname ELSE "", st0)
     IN /\ nodes' = r.heap
        /\ Types' = r.types
        /\ ConstsByType' = st.consts
        /\ fault' = st.fault
        /\ cb' = [cb EXCEPT !.specs = Tail(@), !.currentTypeName = typeName, !.currentTypeInfo = r.id,
                            !.iotaValue = st.iota, !.lastIotaExpr = st.last]
        /\ lastResolve' = IF typed
                          THEN [key |-> r.key, id |-> r.id, hit |-> r.hit, builder |-> 0, asIs |-> TRUE]
                          ELSE lastResolve
        /\ keyDenots' = IF typed /\ r.id # 0 THEN AddDenot(keyDenots, r.key, Denot(vs.type)) ELSE keyDenots
  /\ UNCHANGED <<orch, pkg, stack, phase, regs, firstNode>>

\* the loop over genDecl.Specs is over: AddConstBlock returns
ConstEnd ==
  /\ fault = "none"
  /\ cb.active
  /\ cb.specs = <<>>
  /\ cb' = [cb EXCEPT !.active = FALSE]
  /\ UNCHANGED <<orch, pkg, nodes, Types, ConstsByType, stack, fault, phase, regs, firstNode, keyDenots, lastResolve>>

\* a post-pass that reclassifies nothing
detectEnumsSkipped(heap, types, consts) == heap

\* detectEnums on the heap
detectEnums(heap, types, consts) ==
  [id \in 1..Len(heap) |->
     IF \E typeName \in DOMAIN consts : typeName \in DOMAIN types /\ types[typeName] = id
     THEN LET typeName == CHOOSE tn \in DOMAIN consts : tn \in DOMAIN types /\ types[tn] = id
          IN [heap[id] EXCEPT !.kind = "enum", !.enumValues = consts[typeName]]
     ELSE heap[id]]

\* the end of ParsePackage: every declaration was handed to its handler
DetectEnums ==
  /\ fault = "none"
  /\ phase = "register"
  /\ Idle
  /\ regs # <<>>
  /\ nodes' = detectEnums(nodes, Types, ConstsByType)
  /\ phase' = "detected"
  /\ UNCHANGED <<orch, pkg, Types, ConstsByType, stack, cb, fault, regs, firstNode, keyDenots, lastResolve>>

Next ==
  \/ \E spec \in PackageOf(pkg).types : AddTypeSpec(spec)
  \/ \E fd \in PackageOf(pkg).funcs : AddFuncDecl(fd)
  \/ \E b \in PackageOf(pkg).consts : AddConstBlock(b)
  \/ Resolve
  \/ Expand
  \/ Statement
  \/ FuncEnd
  \/ Return
  \/ ConstSpecStep
  \/ ConstEnd
  \/ DetectEnums

Spec == Init /\ [][Next]_vars

\* one call of AddConstBlock on a fresh context, for every const group of up to MaxSpecs members
InitConst ==
  /\ pkg = "groups"
  /\ nodes = <<>>
  /\ Types = EmptyMap
  /\ ConstsByType = EmptyMap
  /\ stack = <<>>
  /\ cb = IdleCb
  /\ fault = "none"
  /\ phase = "register"
  /\ regs = <<>>
  /\ firstNode = EmptyMap
  /\ keyDenots = EmptyMap
  /\ lastResolve = NoResolve
  /\ orch = IdleOrch

NextConst ==
  \/ regs = <<>> /\ \E b \in PackageOf(pkg).consts : AddConstBlock(b)
  \/ ConstSpecStep
  \/ ConstEnd

ConstSpec == InitConst /\ [][NextConst]_vars

\* one call of AddConstBlock on a fresh context, for the groups whose members change type
InitAnchor ==
  /\ pkg = "anchors"
  /\ nodes = <<>>
  /\ Types = EmptyMap
  /\ ConstsByType = EmptyMap
  /\ stack = <<>>
  /\ cb = IdleCb
  /\ fault = "none"
  /\ phase = "register"
  /\ regs = <<>>
  /\ firstNode = EmptyMap
  /\ keyDenots = EmptyMap
  /\ lastResolve = NoResolve
  /\ orch = IdleOrch

AnchorSpec == InitAnchor /\ [][NextConst]_vars

\* a run over the package with the generic declaration Node and its instantiations
InitGenerics ==
  /\ pkg = "generic"
  /\ nodes = <<>>
  /\ Types = EmptyMap
  /\ ConstsByType = EmptyMap
  /\ stack = <<>>
  /\ cb = IdleCb
  /\ fault = "none"
  /\ phase = "register"
  /\ regs = <<>>
  /\ firstNode = EmptyMap
  /\ keyDenots = EmptyMap
  /\ lastResolve = NoResolve
  /\ orch = IdleOrch

NextGenerics ==
  \/ \E spec \in PackageOf(pkg).types : AddTypeSpec(spec)
  \/ \E fd \in PackageOf(pkg).funcs : AddFuncDecl(fd)
  \/ Resolve
  \/ Expand
  \/ Statement
  \/ FuncEnd
  \/ Return
  \/ DetectEnums

GenericsSpec == InitGenerics /\ [][NextGenerics]_vars

(***************************************************************************)
(* A run over the configured roots: ProcessWithContext                     *)
(***************************************************************************)
\* Config.Scanning.Packages of the run a package belongs to
Patterns(p) ==
  IF p \in {"m1", "m2"} THEN <<"./models/*.go", "./other">>
  ELSE IF p \in {"n1", "n2"} THEN <<"./models/*.go", "./other/*.go">>
  ELSE <<>>

\* ProcessContext.ModulePath: the module line of go.mod
ModulePath == "ex.com/m"

\* the package loaded after p, or "" when p is the last one
NextRoot(p) ==
  CASE p = "m1" -> "m2"
    [] p = "n1" -> "n2"
    [] OTHER -> ""

\* the packages LoadPackages returned for the patterns, from p on
RECURSIVE RootsFrom(_)
RootsFrom(p) == IF p = "" THEN {} ELSE {p} \cup RootsFrom(NextRoot(p))

FirstRoots == {"m1", "n1"}

\* strings.HasPrefix / strings.HasSuffix / strings.TrimPrefix
HasPrefix(s, prefix) == Len(prefix) <= Len(s) /\ SubSeq(s, 1, Len(prefix)) = prefix
HasSuffix(s, suffix) == Len(suffix) <= Len(s) /\ SubSeq(s, Len(s) - Len(suffix) + 1, Len(s)) = suffix
TrimPrefix(s, prefix) == IF HasPrefix(s, prefix) THEN SubSeq(s, Len(prefix) + 1, Len(s)) ELSE s

\* filepath.Clean on a path without "..", "//" or an inner "." element
RECURSIVE Clean(_)
Clean(path) ==
  IF path = "" THEN "."
  ELSE IF HasPrefix(path, "./") THEN Clean(SubSeq(path, 3, Len(path)))
  ELSE IF Len(path) > 1 /\ HasSuffix(path, "/") THEN Clean(SubSeq(path, 1, Len(path) - 1))
  ELSE path

\* filepath.Dir: all but the last element of the path, cleaned
Dir(path) ==
  LET slashes == {i \in 1..Len(path) : SubSeq(path, i, i) = "/"}
  IN IF slashes = {} THEN "."
     ELSE Clean(SubSeq(path, 1, CHOOSE i \in slashes : \A j \in slashes : j <= i))

isInScannedPackages(pkgPath, patterns) ==
  /\ pkgPath # ""
  /\ \E i \in 1..Len(patterns) :
       IF HasSuffix(patterns[i], "*.go")
       THEN LET dir == TrimPrefix(TrimPrefix(Dir(patterns[i]), "./"), "/")
            IN HasSuffix(pkgPath, "/" \o dir) \/ HasSuffix(pkgPath, dir)
       ELSE HasPrefix(pkgPath, patterns[i])

isSameModule(pkgPath, modulePath) ==
  pkgPath # "" /\ modulePath # "" /\ HasPrefix(pkgPath, modulePath)

isStandardLibrary(pkgPath) ==
  /\ pkgPath # ""
  /\ (~Contains(pkgPath, ".") \/ HasPrefix(pkgPath, "golang.org/x/") \/ HasPrefix(pkgPath, "std/"))

classifyIncludeType(pkgPath, patterns) ==
  IF pkgPath = "" THEN "external"
  ELSE IF isInScannedPackages(pkgPath, patterns) THEN "scanned"
  ELSE IF isSameModule(pkgPath, ModulePath) THEN "local"
  ELSE IF isStandardLibrary(pkgPath) THEN "std"
  ELSE "external"

\* node id is the value of some registry key
IsRegistryNode(types, id) == \E key \in DOMAIN types : types[key] = id

\* UpdateIncludeTypes: every registry node is classified by the path of its package
\* (every node NewTypeInfoFromExpr or AddFuncDecl builds has a Package)
UpdateIncludeTypes(heap, types, patterns) ==
  [id \in 1..Len(heap) |->
     IF IsRegistryNode(types, id)
     THEN [heap[id] EXCEPT !.includeType = classifyIncludeType(heap[id].pkgPath, patterns)]
     ELSE heap[id]]

\* the TypeInfo pointers of a FunctionInfo
SigNodes(fi) == {fi.parms[i].typeInfo : i \in 1..Len(fi.parms)} \cup {fi.returns[i].typeInfo : i \in 1..Len(fi.returns)}

\* findReferencedTypes: the canonical names of the nodes a node points at
findReferencedTypes(n, heap) ==
  LET ptrs == {n.fields[i].te.typeInfo : i \in 1..Len(n.fields)}
              \cup UNION {SigNodes(n.methods[i]) : i \in 1..Len(n.methods)}
              \cup (IF n.functionSig # NilAst THEN SigNodes(n.functionSig) ELSE {})
              \cup {n.elementType, n.keyType, n.aliasTarget}
              \cup {n.typeArguments[i] : i \in 1..Len(n.typeArguments)}
  IN {heap[r].cname : r \in ptrs \ {0}}

\* the loop of CalculateTypeDepths over the queue, one distance at a time: frontier holds
\* the queued names whose node has depth d
RECURSIVE DepthLoop(_, _, _, _, _)
DepthLoop(heap, types, visited, frontier, d) ==
  IF frontier = {} THEN heap
  ELSE LET found == {refName \in UNION {findReferencedTypes(heap[types[c]], heap) : c \in frontier} :
                       refName # "" /\ refName \notin visited /\ refName \in DOMAIN types}
           marked == [id \in 1..Len(heap) |->
                        IF \E refName \in found : types[refName] = id
                        THEN [heap[id] EXCEPT !.depth = d + 1] ELSE heap[id]]
       IN DepthLoop(marked, types, visited \cup found, found, d + 1)

CalculateTypeDepths(heap, types, patterns) ==
  LET classified == UpdateIncludeTypes(heap, types, patterns)
      scanned == {key \in DOMAIN types : classified[types[key]].includeType = "scanned"}
      seeded == [id \in 1..Len(heap) |->
                   IF \E key \in scanned : types[key] = id
                   THEN [classified[id] EXCEPT !.depth = 0] ELSE classified[id]]
  IN DepthLoop(seeded, types, scanned, scanned, 0)

PhaseVarsUnchanged == UNCHANGED <<orch, pkg, Types, ConstsByType, stack, cb, fault, regs, firstNode, keyDenots, lastResolve>>

\* ParsePackage returned and parsePackages takes the next package of the loop
NextPackage ==
  /\ fault = "none"
  /\ phase = "register"
  /\ Idle
  /\ regs # <<>>
  /\ NextRoot(pkg) # ""
  /\ nodes' = detectEnums(nodes, Types, ConstsByType)
  /\ pkg' = NextRoot(pkg)
  /\ UNCHANGED <<orch, Types, ConstsByType, stack, cb, fault, phase, regs, firstNode, keyDenots, lastResolve>>

\* ParsePackage of the last package returned
LastPackageEnd == NextRoot(pkg) = "" /\ DetectEnums

\* parsePackages: UpdateUsageFlags for every registry node
FinalizeUsageFlags ==
  /\ phase = "detected"
  /\ nodes' = [id \in 1..Len(nodes) |->
                 IF IsRegistryNode(Types, id) THEN [nodes[id] EXCEPT !.usage = UpdateUsageFlags(@)] ELSE nodes[id]]
  /\ phase' = "flags"
  /\ PhaseVarsUnchanged

\* parsePackages: UpdateIncludeTypes(ctx)
IncludePhase ==
  /\ phase = "flags"
  /\ nodes' = UpdateIncludeTypes(nodes, Types, Patterns(pkg))
  /\ phase' = "included"
  /\ PhaseVarsUnchanged

\* parsePackages: CalculateTypeDepths(ctx)
DepthPhase ==
  /\ phase = "included"
  /\ nodes' = CalculateTypeDepths(nodes, Types, Patterns(pkg))
  /\ phase' = "depths"
  /\ PhaseVarsUnchanged

InitRun ==
  /\ pkg \in FirstRoots
  /\ nodes = <<>>
  /\ Types = EmptyMap
  /\ ConstsByType = EmptyMap
  /\ stack = <<>>
  /\ cb = IdleCb
  /\ fault = "none"
  /\ phase = "register"
  /\ regs = <<>>
  /\ firstNode = EmptyMap
  /\ keyDenots = EmptyMap
  /\ lastResolve = NoResolve
  /\ orch = IdleOrch

NextRun ==
  \/ \E spec \in PackageOf(pkg).types : AddTypeSpec(spec)
  \/ \E fd \in PackageOf(pkg).funcs : AddFuncDecl(fd)
  \/ \E b \in PackageOf(pkg).consts : AddConstBlock(b)
  \/ Resolve
  \/ Expand
  \/ Statement
  \/ FuncEnd
  \/ Return
  \/ ConstSpecStep
  \/ ConstEnd
  \/ NextPackage
  \/ LastPackageEnd
  \/ FinalizeUsageFlags
  \/ IncludePhase
  \/ DepthPhase

RunSpec == InitRun /\ [][NextRun]_vars

(***************************************************************************)
(* Generation in referenced mode: Orchestrator                             *)
(***************************************************************************)
\* the largest auto_generate.max_depth a configuration carries
MaxDepthCfg == 2

GoBuiltinTypes == {"bool", "string", "int", "int8", "int16", "int32", "int64", "uint", "uint8", "uint16", "uint32",
                   "uint64", "uintptr", "byte", "rune", "float32", "float64", "complex64", "complex128", "error", "any"}

\* the builtins collectReferencedTypes skips
CollectBuiltins == {"string", "int", "int8", "int16", "int32", "int64", "uint", "uint8", "uint16", "uint32", "uint64",
                    "float32", "float64", "bool", "byte", "rune", "error", "any", "interface{}"}

\* a world declares S { a A }, A { b B } and B {}: S in the configured package root, A and
\* B in root or in the imported packages x1 and x2 outside it; a field names its type
\* plainly, through a pointer or as a slice
Wraps == {"plain", "pointer", "slice"}
Placements == {<<"root", "root">>, <<"root", "x2">>, <<"x1", "x2">>}
Worlds == [place : Placements, wrapA : Wraps, wrapB : Wraps, len : {0}]

\* the longest chain of a chain world
MaxChain == 12

\* a chain world declares S { a p1.T1 } in the configured package root and, for every i up
\* to its length, Ti { n p<i+1>.T<i+1> } in a package pi of its own outside the root; the
\* last type of the chain has no field
ChainWorlds == [place : {<<"x1", "x2">>}, wrapA : {"plain"}, wrapB : {"plain"}, len : 1..MaxChain]

Decimal(i) == IF i < 10 THEN Digits[i + 1] ELSE Digits[(i \div 10) + 1] \o Digits[(i % 10) + 1]
ChainName(i) == "T" \o Decimal(i)
ChainPkg(i) == "p" \o Decimal(i)

\* the names a world declares
WorldTypes(w) == IF w.len = 0 THEN {"S", "A", "B"} ELSE {"S"} \cup {ChainName(i) : i \in 1..w.len}

PkgOfType(w, name) ==
  CASE name = "S" -> "root"
    [] w.len = 0 /\ name = "A" -> w.place[1]
    [] w.len = 0 /\ name = "B" -> w.place[2]
    [] w.len > 0 /\ name \in WorldTypes(w) -> ChainPkg(CHOOSE i \in 1..w.len : ChainName(i) = name)
    [] OTHER -> ""

Wrapped(wrap, expr) ==
  CASE wrap = "pointer" -> Star(expr)
    [] wrap = "slice" -> ArrayType(expr)
    [] OTHER -> expr

\* the expression that names a type in a file of package from
TypeRef(w, from, name) == IF PkgOfType(w, name) = from THEN Ident(name) ELSE Selector(PkgOfType(w, name), name)

\* the StructInfo of a declaration of the world
StructDecl(w, name) ==
  [name |-> name, pkg |-> PkgOfType(w, name),
   fields |-> CASE w.len = 0 /\ name = "S" -> <<[name |-> "a", type |-> Wrapped(w.wrapA, TypeRef(w, "root", "A"))]>>
                [] w.len = 0 /\ name = "A" -> <<[name |-> "b", type |-> Wrapped(w.wrapB, TypeRef(w, PkgOfType(w, "A"), "B"))]>>
                [] w.len > 0 /\ name = "S" -> <<[name |-> "a", type |-> TypeRef(w, "root", ChainName(1))]>>
                [] w.len > 0 /\ name \in WorldTypes(w) \ {"S", ChainName(w.len)} ->
                     <<[name |-> "n",
                        type |-> TypeRef(w, PkgOfType(w, name), ChainName((CHOOSE i \in 1..w.len : ChainName(i) = name) + 1))]>>
                [] OTHER -> <<>>]

\* func Handle(s S), the function of package root the plugin accepts
HandleFunc == [name |-> "Handle", params |-> <<Param("s", Ident("S"))>>, results |-> <<>>]

\* Parser.ExtractStructs: the structs of the files parsed so far; a struct of a file
\* that LoadExternalType added is external
ExtractStructs(o) ==
  {[name |-> n, pkg |-> PkgOfType(o.world, n), fields |-> StructDecl(o.world, n).fields,
    isExternalType |-> PkgOfType(o.world, n) # "root"] : n \in o.parsed}

\* filterByRootDirsStructs: a struct stays when its file lies under a configured package
\* or when it was loaded on request from an external package
filterByRootDirsStructs(items, o) ==
  {it \in items : it.pkg = "root" \/ (it.isExternalType /\ it.name \in o.requested)}

\* TypeUtils.GetTypeName
RECURSIVE GetTypeName(_)
GetTypeName(expr) ==
  CASE expr.k = "Ident" -> expr.name
    [] expr.k = "Star" -> GetTypeName(expr.x)
    [] expr.k = "Array" -> GetTypeName(expr.elt)
    [] expr.k = "Selector" -> expr.sel
    [] expr.k = "Map" -> "map"
    [] OTHER -> ""

RECURSIVE extractTypeNamesFromExpr(_)
extractTypeNamesFromExpr(expr) ==
  CASE expr.k = "Ident" -> IF expr.name \in GoBuiltinTypes THEN {} ELSE {expr.name}
    [] expr.k = "Star" -> extractTypeNamesFromExpr(expr.x)
    [] expr.k = "Array" -> extractTypeNamesFromExpr(expr.elt)
    [] expr.k = "Selector" -> {expr.sel}
    [] expr.k = "Map" -> extractTypeNamesFromExpr(expr.key) \cup extractTypeNamesFromExpr(expr.value)
    [] expr.k \in {"Index", "IndexList"} ->
         extractTypeNamesFromExpr(expr.x) \cup UNION {extractTypeNamesFromExpr(expr.indices[i]) : i \in 1..Len(expr.indices)}
    [] OTHER -> {}

extractReferencedTypeNames(structs) ==
  UNION {UNION {extractTypeNamesFromExpr(st.fields[i].type) : i \in 1..Len(st.fields)} : st \in structs}

RECURSIVE collectReferencedTypes(_, _)
collectReferencedTypes(typeName, referenced) ==
  IF typeName = "" THEN referenced
  ELSE LET t == TrimPrefix(typeName, "*")
           closing == {i \in 1..Len(t) : SubSeq(t, i, i) = "]"}
       IN IF HasPrefix(t, "[]") THEN collectReferencedTypes(SubSeq(t, 3, Len(t)), referenced)
          ELSE IF HasPrefix(t, "map[")
          THEN IF closing # {} /\ Len(t) > (CHOOSE i \in closing : \A j \in closing : i <= j)
               THEN collectReferencedTypes(SubSeq(t, (CHOOSE i \in closing : \A j \in closing : i <= j) + 1, Len(t)), referenced)
               ELSE referenced
          ELSE IF t \notin CollectBuiltins THEN referenced \cup {t}
          ELSE referenced

\* expandReferencedTypes and its loop over the fields of the struct; st = [referenced, visited]
RECURSIVE expandReferencedTypes(_, _, _)
RECURSIVE ExpandFields(_, _, _)
ExpandFields(fields, allStructs, st) ==
  IF fields = <<>> THEN st
  ELSE LET fieldTypeName == GetTypeName(Head(fields).type)
           collected == [st EXCEPT !.referenced = collectReferencedTypes(fieldTypeName, @)]
       IN ExpandFields(Tail(fields), allStructs, expandReferencedTypes(fieldTypeName, allStructs, collected))

expandReferencedTypes(typeName, allStructs, st) ==
  IF typeName \in st.visited THEN st
  ELSE LET seen == [st EXCEPT !.visited = @ \cup {typeName}]
       IN IF \E s \in allStructs : s.name = typeName
          THEN ExpandFields((CHOOSE s \in allStructs : s.name = typeName).fields, allStructs, seen)
          ELSE seen

\* the types of a parameter or result list, collected
RECURSIVE CollectSignature(_, _)
CollectSignature(ps, referenced) ==
  IF ps = <<>> THEN referenced
  ELSE CollectSignature(Tail(ps), collectReferencedTypes(GetTypeName(Head(ps).type), referenced))

\* the loop of buildReferencedTypesMap over the names collected from the functions
RECURSIVE ExpandEach(_, _, _)
ExpandEach(names, allStructs, st) ==
  IF names = {} THEN st
  ELSE LET typeName == CHOOSE n \in names : TRUE
       IN ExpandEach(names \ {typeName}, allStructs, expandReferencedTypes(typeName, allStructs, st))

\* buildReferencedTypesMap for one function without schema annotations
buildReferencedTypesMap(fn, allStructs) ==
  LET direct == CollectSignature(fn.results, CollectSignature(fn.params, {}))
  IN ExpandEach(direct, allStructs, [referenced |-> direct, visited |-> {}]).referenced

\* filterByReferencedTypes with Structs in referenced mode: the names of the structs kept
filterByReferencedTypes(structs, referencedTypes) == {st.name : st \in {x \in structs : x.name \in referencedTypes}}

\* the selector expressions in a field type, as findExternalPackageForType's checkExpr visits them
RECURSIVE SelectorsIn(_)
SelectorsIn(expr) ==
  CASE expr.k = "Selector" -> {expr}
    [] expr.k = "Star" -> SelectorsIn(expr.x)
    [] expr.k = "Array" -> SelectorsIn(expr.elt)
    [] expr.k = "Map" -> SelectorsIn(expr.key) \cup SelectorsIn(expr.value)
    [] OTHER -> {}

\* findExternalPackageForType: the import path of a package a parsed file names the type with
findExternalPackageForType(o, typeName) ==
  LET paths == {sel.x : sel \in {x \in UNION {UNION {SelectorsIn(st.fields[i].type) : i \in 1..Len(st.fields)} :
                                                   st \in ExtractStructs(o)} : x.sel = typeName}}
  IN IF paths = {} THEN "" ELSE CHOOSE path \in paths : TRUE

\* Parser.LoadExternalType: the type is recorded as requested, the package is loaded, and
\* only the file that declares the type is kept; a package that loads is no error even
\* when no file of it declares the type.  Every type of a world has a file of its own.
LoadExternalType(o, pkgPath, typeName) ==
  IF pkgPath \in {PkgOfType(o.world, n) : n \in WorldTypes(o.world)} \ {"root"}
  THEN [ok |-> TRUE,
        o |-> [o EXCEPT !.requested = @ \cup {typeName},
                        !.parsed = @ \cup (IF PkgOfType(o.world, typeName) = pkgPath THEN {typeName} ELSE {})]]
  ELSE [ok |-> FALSE, o |-> [o EXCEPT !.requested = @ \cup {typeName}]]

\* findAndParseType: no import of a world lies in the module, so the search of the
\* module's packages finds nothing
findAndParseType(o, typeName) ==
  LET pkgPath == findExternalPackageForType(o, typeName)
  IN IF pkgPath # "" THEN LoadExternalType(o, pkgPath, typeName) ELSE [ok |-> FALSE, o |-> o]

\* the loop of parseReferencedTypes over newTypes; acc = [o, foundAny]
RECURSIVE ParseEach(_, _)
ParseEach(names, acc) ==
  IF names = {} THEN acc
  ELSE LET typeName == CHOOSE n \in names : TRUE
           r == findAndParseType(acc.o, typeName)
       IN ParseEach(names \ {typeName},
                    IF r.ok THEN [o |-> [r.o EXCEPT !.parsedTypes = @ \cup {typeName}], foundAny |-> TRUE] ELSE acc)

\* parseReferencedTypesFromFunctions: the default depth is 10
EffectiveMaxDepth(o) == IF o.maxDepth > 0 THEN o.maxDepth ELSE 10

\* parseReferencedTypes: the types searched in the round after this one
NextTypesToFind(o, currentDepth) ==
  IF EffectiveMaxDepth(o) = 0 \/ currentDepth + 1 < EffectiveMaxDepth(o)
  THEN extractReferencedTypeNames(ExtractStructs(o))
  ELSE {}

OrchUnchanged == UNCHANGED <<pkg, nodes, Types, ConstsByType, stack, cb, fault, phase, regs, firstNode, keyDenots, lastResolve>>

\* Generate in referenced mode reaches parseReferencedTypes
RefStart ==
  /\ orch.pc = "start"
  /\ orch' = [orch EXCEPT !.pc = "discover",
                          !.parsedTypes = {st.name : st \in ExtractStructs(orch)},
                          !.currentDepth = 0,
                          !.typesToFind = extractReferencedTypeNames(ExtractStructs(orch))]
  /\ OrchUnchanged

\* the loop of parseReferencedTypes runs another round
RoundRuns ==
  /\ orch.pc = "discover"
  /\ orch.currentDepth < EffectiveMaxDepth(orch) \/ EffectiveMaxDepth(orch) = 0
  /\ orch.typesToFind \ orch.parsedTypes # {}
  /\ ParseEach(orch.typesToFind \ orch.parsedTypes, [o |-> orch, foundAny |-> FALSE]).foundAny

\* one round of the loop of parseReferencedTypes
RefRound ==
  /\ RoundRuns
  /\ LET after == ParseEach(orch.typesToFind \ orch.parsedTypes, [o |-> orch, foundAny |-> FALSE]).o
     IN orch' = [after EXCEPT !.typesToFind = NextTypesToFind(after, orch.currentDepth),
                              !.currentDepth = @ + 1]
  /\ OrchUnchanged

\* parseReferencedTypes returned: the structs are extracted again and filtered by the roots
RefExtract ==
  /\ orch.pc = "discover"
  /\ ~RoundRuns
  /\ orch' = [orch EXCEPT !.pc = "extracted", !.allStructs = filterByRootDirsStructs(ExtractStructs(orch), orch)]
  /\ OrchUnchanged

\* referencedTypes := o.buildReferencedTypesMap(filteredFunctions, allStructs, allEnums)
RefClosure ==
  /\ orch.pc = "extracted"
  /\ orch' = [orch EXCEPT !.pc = "closed", !.referenced = buildReferencedTypesMap(HandleFunc, orch.allStructs)]
  /\ OrchUnchanged

\* filteredStructs, filteredEnums = o.filterByReferencedTypes(allStructs, allEnums, referencedTypes, scanOptions)
RefFilter ==
  /\ orch.pc = "closed"
  /\ orch' = [orch EXCEPT !.pc = "done", !.output = filterByReferencedTypes(orch.allStructs, orch.referenced)]
  /\ OrchUnchanged

InitRef ==
  /\ pkg = "root"
  /\ nodes = <<>>
  /\ Types = EmptyMap
  /\ ConstsByType = EmptyMap
  /\ stack = <<>>
  /\ cb = IdleCb
  /\ fault = "none"
  /\ phase = "register"
  /\ regs = <<>>
  /\ firstNode = EmptyMap
  /\ keyDenots = EmptyMap
  /\ lastResolve = NoResolve
  /\ \E w \in Worlds, d \in 0..MaxDepthCfg :
       orch = [pc |-> "start", world |-> w, maxDepth |-> d,
               parsed |-> {n \in {"S", "A", "B"} : PkgOfType(w, n) = "root"}, requested |-> {},
               parsedTypes |-> {}, typesToFind |-> {}, currentDepth |-> 0,
               allStructs |-> {}, referenced |-> {}, output |-> {}]

NextRef ==
  \/ RefStart
  \/ RefRound
  \/ RefExtract
  \/ RefClosure
  \/ RefFilter

RefSpec == InitRef /\ [][NextRef]_vars

\* a generation in referenced mode over a chain world
InitChain ==
  /\ pkg = "root"
  /\ nodes = <<>>
  /\ Types = EmptyMap
  /\ ConstsByType = EmptyMap
  /\ stack = <<>>
  /\ cb = IdleCb
  /\ fault = "none"
  /\ phase = "register"
  /\ regs = <<>>
  /\ firstNode = EmptyMap
  /\ keyDenots = EmptyMap
  /\ lastResolve = NoResolve
  /\ \E w \in ChainWorlds, d \in 0..MaxDepthCfg :
       orch = [pc |-> "start", world |-> w, maxDepth |-> d,
               parsed |-> {"S"}, requested |-> {},
               parsedTypes |-> {}, typesToFind |-> {}, currentDepth |-> 0,
               allStructs |-> {}, referenced |-> {}, output |-> {}]

ChainSpec == InitChain /\ [][NextRef]_vars

(***************************************************************************)
(* Configuration: root settings and a plugin's override                    *)
(***************************************************************************)
ScanModes == {"all", "referenced", "none", "disabled"}
Strategies == {"none", "referenced", "all", "patterns"}

\* ScanMode.IsEnabled, IsAll, IsReferenced
IsEnabled(mode) == mode \notin {"none", "disabled", ""}
IsAll(mode) == mode = "all"
IsReferenced(mode) == mode = "referenced"

\* the zero values of Go: &AutoGenerateConfig{} and &ScanOptions{}
ZeroAutoGenerateConfig == [Enabled |-> FALSE, Strategy |-> "", MaxDepth |-> 0, Patterns |-> <<>>, IncludeEmbedded |-> FALSE]
ZeroScanOptions == [Enums |-> "", Structs |-> "", Functions |-> "", FunctionBodies |-> ""]

\* the root settings of a run
RootAutoGenerate ==
  [Enabled : BOOLEAN, Strategy : {"referenced"}, MaxDepth : 0..MaxDepthCfg, Patterns : {<<"*/models/*">>},
   IncludeEmbedded : {TRUE}]
RootScanOptions == [Enums : {"all"}, Structs : {"all"}, Functions : {"all"}, FunctionBodies : {"all", "none"}]

\* the auto_generate and scan_options maps of a plugin's configuration: present says
\* that the plugin has the map, has names the keys the map sets, and a key that is not
\* set carries the zero value
PluginAutoGenerate ==
  {m \in [present : BOOLEAN, has : SUBSET {"enabled", "strategy", "max_depth", "patterns"}, enabled : BOOLEAN,
          strategy : {"", "all", "patterns", "bogus"}, max_depth : 0..MaxDepthCfg, patterns : {<<>>, <<"*/dto/*">>}] :
     /\ ~m.present => m.has = {}
     /\ ("enabled" \notin m.has) => ~m.enabled
     /\ ("strategy" \in m.has) <=> m.strategy # ""
     /\ ("max_depth" \notin m.has) => m.max_depth = 0
     /\ ("patterns" \in m.has) <=> m.patterns # <<>>}
PluginScanOptions ==
  {m \in [present : BOOLEAN, has : SUBSET {"structs", "function_bodies"},
          structs : {"", "referenced", "none", "bogus"}, function_bodies : {"", "all", "none"}] :
     /\ ~m.present => m.has = {}
     /\ ("structs" \in m.has) <=> m.structs # ""
     /\ ("function_bodies" \in m.has) <=> m.function_bodies # ""}

\* AutoGenerateConfig.Merge
AutoGenerateConfigMerge(c, override) ==
  [Enabled |-> override.Enabled,
   Strategy |-> IF override.Strategy # "" THEN override.Strategy ELSE c.Strategy,
   MaxDepth |-> IF override.MaxDepth # 0 \/ (override.MaxDepth = 0 /\ override.Strategy = "all")
                THEN override.MaxDepth ELSE c.MaxDepth,
   Patterns |-> IF Len(override.Patterns) > 0 THEN override.Patterns ELSE c.Patterns,
   IncludeEmbedded |-> override.IncludeEmbedded]

\* getMergedAutoGenerateConfig: the plugin's map is read into a zero configuration, key
\* by key, and merged over the root
getMergedAutoGenerateConfig(rootConfig, m) ==
  IF m.present
  THEN AutoGenerateConfigMerge(rootConfig,
         [ZeroAutoGenerateConfig EXCEPT !.Enabled = IF "enabled" \in m.has THEN m.enabled ELSE @,
                                        !.Strategy = IF "strategy" \in m.has THEN m.strategy ELSE @,
                                        !.MaxDepth = IF "max_depth" \in m.has THEN m.max_depth ELSE @])
  ELSE rootConfig

\* ScanOptions.Merge with neither side nil
ScanOptionsMerge(s, override) ==
  [Enums |-> IF override.Enums # "" THEN override.Enums ELSE s.Enums,
   Structs |-> IF override.Structs # "" THEN override.Structs ELSE s.Structs,
   Functions |-> IF override.Functions # "" THEN override.Functions ELSE s.Functions,
   FunctionBodies |-> s.FunctionBodies]

\* getMergedScanOptions: Merge returns the root for a nil override
getMergedScanOptions(rootConfig, m) ==
  IF m.present
  THEN ScanOptionsMerge(rootConfig, [ZeroScanOptions EXCEPT !.Structs = IF "structs" \in m.has THEN m.structs ELSE @])
  ELSE rootConfig

\* ApplyAutoGeneration: a strategy outside the defined set is an error
ApplyAutoGeneration(autoGenConfig) == IF autoGenConfig.Strategy \in Strategies THEN "" ELSE "invalid strategy"

\* scanOptions := o.getMergedScanOptions(pluginConfig)
MergeScanOptions ==
  /\ orch.pc = "config"
  /\ orch' = [orch EXCEPT !.pc = "scan", !.scanOptions = getMergedScanOptions(orch.root.scan, orch.plugin.scan)]
  /\ OrchUnchanged

\* autoGenConfig := o.getMergedAutoGenerateConfig(pluginConfig)
MergeAutoGenerate ==
  /\ orch.pc = "scan"
  /\ orch' = [orch EXCEPT !.pc = "autogen",
                          !.autoGenConfig = getMergedAutoGenerateConfig(orch.root.autoGen, orch.plugin.autoGen)]
  /\ OrchUnchanged

\* the declarations are filtered: by reference in referenced mode, by the plugin's
\* annotations alone when auto-generation is off, through ApplyAutoGeneration otherwise
ConfigFilter ==
  /\ orch.pc = "autogen"
  /\ LET err == IF IsReferenced(orch.scanOptions.Structs) \/ IsReferenced(orch.scanOptions.Enums) THEN ""
                ELSE IF ~orch.autoGenConfig.Enabled THEN ""
                ELSE ApplyAutoGeneration(orch.autoGenConfig)
     IN orch' = [orch EXCEPT !.pc = IF err = "" THEN "filtered" ELSE "failed", !.err = err]
  /\ OrchUnchanged

\* return plugin.Generate(ctx)
PluginGenerate ==
  /\ orch.pc = "filtered"
  /\ orch' = [orch EXCEPT !.pc = "generated"]
  /\ OrchUnchanged

InitConfig ==
  /\ pkg = "root"
  /\ nodes = <<>>
  /\ Types = EmptyMap
  /\ ConstsByType = EmptyMap
  /\ stack = <<>>
  /\ cb = IdleCb
  /\ fault = "none"
  /\ phase = "register"
  /\ regs = <<>>
  /\ firstNode = EmptyMap
  /\ keyDenots = EmptyMap
  /\ lastResolve = NoResolve
  /\ \E ra \in RootAutoGenerate, rs \in RootScanOptions, pa \in PluginAutoGenerate, ps \in PluginScanOptions :
       orch = [pc |-> "config", root |-> [autoGen |-> ra, scan |-> rs], plugin |-> [autoGen |-> pa, scan |-> ps],
               scanOptions |-> ZeroScanOptions, autoGenConfig |-> ZeroAutoGenerateConfig, err |-> ""]

NextConfig ==
  \/ MergeScanOptions
  \/ MergeAutoGenerate
  \/ ConfigFilter
  \/ PluginGenerate

ConfigSpec == InitConfig /\ [][NextConfig]_vars

(***************************************************************************)
(* Annotation parser.  A text is a sequence of one-character strings.      *)
(***************************************************************************)
\* the longest arbitrary text after the marker, and the most entries of a generated list
MaxLine == 4
MaxEntries == 3

Quotes == {"\"", "'"}
Whitespace == {" ", "\t"}

\* the characters isBooleanFlag accepts: a-z, A-Z, 0-9, _ and -
FlagChars ==
  {"a", "b", "c", "d", "e", "f", "g", "h", "i", "j", "k", "l", "m", "n", "o", "p", "q", "r", "s", "t", "u", "v", "w",
   "x", "y", "z", "A", "B", "C", "D", "E", "F", "G", "H", "I", "J", "K", "L", "M", "N", "O", "P", "Q", "R", "S", "T",
   "U", "V", "W", "X", "Y", "Z", "0", "1", "2", "3", "4", "5", "6", "7", "8", "9", "_", "-"}

\* what a slice expression with indices out of range leaves behind: Go panics there
PanicMark == "panic: slice bounds out of range"

\* s[lo:hi] with Go's indices
Slice(s, lo, hi) == IF 0 <= lo /\ lo <= hi /\ hi <= Len(s) THEN SubSeq(s, lo + 1, hi) ELSE <<PanicMark>>

RECURSIVE TrimLeft(_, _)
TrimLeft(s, cutset) == IF s # <<>> /\ Head(s) \in cutset THEN TrimLeft(Tail(s), cutset) ELSE s

RECURSIVE TrimRight(_, _)
TrimRight(s, cutset) == IF s # <<>> /\ s[Len(s)] \in cutset THEN TrimRight(SubSeq(s, 1, Len(s) - 1), cutset) ELSE s

\* strings.Trim and strings.TrimSpace
Trim(s, cutset) == TrimRight(TrimLeft(s, cutset), cutset)
TrimSpace(s) == Trim(s, Whitespace)

\* strings.TrimSuffix
TrimSuffix(s, suffix) == IF HasSuffix(s, suffix) THEN SubSeq(s, 1, Len(s) - Len(suffix)) ELSE s

\* an index search that answers a missing character with a position past the end
IndexOrEnd(s, ch) ==
  IF \E i \in 1..Len(s) : s[i] = ch THEN (CHOOSE i \in 1..Len(s) : s[i] = ch /\ \A j \in 1..(i - 1) : s[j] # ch) - 1
  ELSE Len(s) + 1

\* strings.Index for one character: Go's index, -1 when absent
Index(s, ch) ==
  IF \E i \in 1..Len(s) : s[i] = ch THEN (CHOOSE i \in 1..Len(s) : s[i] = ch /\ \A j \in 1..(i - 1) : s[j] # ch) - 1 ELSE -1

\* strings.LastIndex for one character
LastIndex(s, ch) ==
  IF \E i \in 1..Len(s) : s[i] = ch
  THEN (CHOOSE i \in 1..Len(s) : s[i] = ch /\ \A j \in (i + 1)..Len(s) : s[j] # ch) - 1
  ELSE -1

\* the quote bookkeeping the scanners share: q = [inQuotes, quoteChar]
NoQuote == [inQuotes |-> FALSE, quoteChar |-> ""]
QuoteStep(q, ch) ==
  IF ~q.inQuotes THEN [inQuotes |-> TRUE, quoteChar |-> ch]
  ELSE IF ch = q.quoteChar THEN [q EXCEPT !.inQuotes = FALSE]
  ELSE q

\* isInQuotes: the characters before idx are scanned
RECURSIVE QuoteScan(_, _)
QuoteScan(s, q) == IF s = <<>> THEN q ELSE QuoteScan(Tail(s), IF Head(s) \in Quotes THEN QuoteStep(q, Head(s)) ELSE q)
isInQuotes(s, idx) == QuoteScan(SubSeq(s, 1, idx), NoQuote).inQuotes

\* a test that takes every token for a flag
AnyTokenIsFlag(s) == TRUE

\* isBooleanFlag
isBooleanFlag(s) == TrimSpace(s) # <<>> /\ \A i \in 1..Len(TrimSpace(s)) : TrimSpace(s)[i] \in FlagChars

\* the first loop of parseParamsParentheses; st = [parts, current, q, bracketDepth]
RECURSIVE SplitParams(_, _)
SplitParams(s, st) ==
  IF s = <<>> THEN IF Len(st.current) > 0 THEN Append(st.parts, st.current) ELSE st.parts
  ELSE LET ch == Head(s)
       IN SplitParams(Tail(s),
            IF ch \in Quotes THEN [st EXCEPT !.q = QuoteStep(@, ch), !.current = Append(@, ch)]
            ELSE IF ch = "[" /\ ~st.q.inQuotes THEN [st EXCEPT !.bracketDepth = @ + 1, !.current = Append(@, ch)]
            ELSE IF ch = "]" /\ ~st.q.inQuotes THEN [st EXCEPT !.bracketDepth = @ - 1, !.current = Append(@, ch)]
            ELSE IF ch = "," /\ ~st.q.inQuotes /\ st.bracketDepth = 0
            THEN [st EXCEPT !.parts = Append(@, st.current), !.current = <<>>]
            ELSE [st EXCEPT !.current = Append(@, ch)])

\* the index of the first : or = outside quotes, -1 when there is none
SepIdx(part) ==
  LET seps == {i \in 1..Len(part) : part[i] \in {":", "="} /\ ~isInQuotes(part, i - 1)}
  IN IF seps = {} THEN -1 ELSE (CHOOSE i \in seps : \A j \in seps : i <= j) - 1

\* params[key] = value
ParamSet(params, key, value) == [k \in DOMAIN params \cup {key} |-> IF k = key THEN value ELSE params[k]]

\* params[key], the empty string for a key the map does not have
ParamGet(params, key) == IF key \in DOMAIN params THEN params[key] ELSE <<>>

\* the second loop of parseParamsParentheses; st = [params, positionalIdx]
RECURSIVE ParamsLoop(_, _)
ParamsLoop(parts, st) ==
  IF parts = <<>> THEN st.params
  ELSE LET part == TrimSpace(Head(parts))
           sepIdx == SepIdx(part)
           wasQuoted == \/ HasPrefix(part, <<"\"">>) /\ HasSuffix(part, <<"\"">>)
                        \/ HasPrefix(part, <<"'">>) /\ HasSuffix(part, <<"'">>)
           value == Trim(part, Quotes)
       IN ParamsLoop(Tail(parts),
            IF sepIdx = -1
            THEN IF ~wasQuoted /\ isBooleanFlag(value)
                 THEN [st EXCEPT !.params = ParamSet(@, value, <<"t", "r", "u", "e">>)]
                 ELSE [params |-> ParamSet(st.params, <<>>,
                                           IF st.positionalIdx = 0 THEN value
                                           ELSE ParamGet(st.params, <<>>) \o <<",">> \o value),
                       positionalIdx |-> st.positionalIdx + 1]
            ELSE [st EXCEPT !.params = ParamSet(@, TrimSpace(Slice(part, 0, sepIdx)),
                                                Trim(TrimSpace(Slice(part, sepIdx + 1, Len(part))), Quotes))])

parseParamsParentheses(s) ==
  ParamsLoop(SplitParams(s, [parts |-> <<>>, current |-> <<>>, q |-> NoQuote, bracketDepth |-> 0]),
             [params |-> EmptyMap, positionalIdx |-> 0])

\* splitAnnotationParts; st = [parts, current, q]
RECURSIVE splitAnnotationParts(_, _)
splitAnnotationParts(line, st) ==
  IF line = <<>> THEN IF Len(st.current) > 0 THEN Append(st.parts, st.current) ELSE st.parts
  ELSE LET ch == Head(line)
       IN splitAnnotationParts(Tail(line),
            IF ch \in Quotes THEN [st EXCEPT !.q = QuoteStep(@, ch), !.current = Append(@, ch)]
            ELSE IF ch = " " /\ ~st.q.inQuotes
            THEN IF Len(st.current) > 0 THEN [st EXCEPT !.parts = Append(@, st.current), !.current = <<>>] ELSE st
            ELSE [st EXCEPT !.current = Append(@, ch)])

RECURSIVE parseParamsSpaceSeparated(_, _)
parseParamsSpaceSeparated(parts, params) ==
  IF parts = <<>> THEN params
  ELSE LET part == TrimSpace(Head(parts))
           sepIdx == SepIdx(part)
       IN parseParamsSpaceSeparated(Tail(parts),
            IF part = <<>> THEN params
            ELSE IF sepIdx = -1 THEN ParamSet(params, part, <<"t", "r", "u", "e">>)
            ELSE ParamSet(params, TrimSpace(Slice(part, 0, sepIdx)),
                          Trim(TrimSpace(Slice(part, sepIdx + 1, Len(part))), Quotes)))

parseAnnotation(rawText) ==
  LET line == TrimPrefix(rawText, <<"@">>)
      parenIdx == Index(line, "(")
      paramsStr == Slice(line, parenIdx + 1, Len(line))
      endIdx == LastIndex(paramsStr, ")")
      parts == splitAnnotationParts(line, [parts |-> <<>>, current |-> <<>>, q |-> NoQuote])
  IN IF parenIdx # -1
     THEN [name |-> TrimSpace(Slice(line, 0, parenIdx)),
           params |-> parseParamsParentheses(IF endIdx # -1 THEN Slice(paramsStr, 0, endIdx) ELSE paramsStr),
           rawText |-> rawText]
     ELSE IF Len(parts) = 0 THEN [name |-> <<>>, params |-> EmptyMap, rawText |-> rawText]
     ELSE [name |-> TrimSpace(parts[1]),
           params |-> IF Len(parts) > 1 THEN parseParamsSpaceSeparated(Tail(parts), EmptyMap) ELSE EmptyMap,
           rawText |-> rawText]

\* a slice of the parse was out of range
HasPanicMark(s) == \E i \in 1..Len(s) : s[i] = PanicMark
Panicked(ann) ==
  \/ HasPanicMark(ann.name)
  \/ \E k \in DOMAIN ann.params : HasPanicMark(k) \/ HasPanicMark(ann.params[k])

\* the characters arbitrary texts are made of
Alphabet == {"(", ")", "\"", "\\", ",", ":", "a", " ", "]"}
Texts == UNION {[1..k -> Alphabet] : k \in 0..MaxLine}

\* the entries generated lists are made of: key:value pairs, bare tokens without quotes
\* that are identifiers or not, and bare tokens in quotes
Shapes ==
  {[kind |-> "pair", text |-> <<"t", ":", "\"", "P", "\"">>, key |-> <<"t">>, value |-> <<"P">>],
   [kind |-> "pair", text |-> <<"d", "=", "'", "A", " ", "p", "'">>, key |-> <<"d">>, value |-> <<"A", " ", "p">>],
   [kind |-> "bare", text |-> <<"r", "o">>, key |-> <<>>, value |-> <<"r", "o">>],
   [kind |-> "bare", text |-> <<"/", "u">>, key |-> <<>>, value |-> <<"/", "u">>],
   [kind |-> "quoted", text |-> <<"\"", "P", "\"">>, key |-> <<>>, value |-> <<"P">>],
   [kind |-> "quoted", text |-> <<"'", "q", ",", "r", "'">>, key |-> <<>>, value |-> <<"q", ",", "r">>]}

\* a pair whose quoted value holds an escaped quote followed by a comma
EscapedShapes ==
  {[kind |-> "pair", text |-> <<"t", ":", "\"", "a", "\\", "\"", ",", "b", "\"">>, key |-> <<"t">>,
    value |-> <<"a", "\\", "\"", ",", "b">>],
   [kind |-> "quoted", text |-> <<"\"", "a", "\\", "\"", ",", " ", "b", "\"">>, key |-> <<>>,
    value |-> <<"a", "\\", "\"", ",", " ", "b">>]}

EntryLists == UNION {[1..k -> Shapes] : k \in 1..MaxEntries} \cup {<<e>> : e \in EscapedShapes}

RECURSIVE JoinEntries(_)
JoinEntries(entries) ==
  IF Len(entries) = 1 THEN entries[1].text ELSE entries[1].text \o <<",", " ">> \o JoinEntries(Tail(entries))

\* @s(entry, entry, ...)
LineOf(entries) == <<"@", "s", "(">> \o JoinEntries(entries) \o <<")">>

AnnotUnchanged == UNCHANGED <<pkg, nodes, Types, ConstsByType, stack, cb, phase, regs, firstNode, keyDenots, lastResolve>>

\* ParseAnnotations on one comment: the comment markers and the blanks around them are
\* cut off, and a line that does not begin with the marker is passed over
CommentLine(c) ==
  LET text == TrimSpace(TrimSuffix(TrimPrefix(TrimPrefix(TrimSpace(c), <<"/", "/">>), <<"/", "*">>), <<"*", "/">>))
  IN TrimSpace(TrimPrefix(TrimSpace(text), <<"*">>))

ScanComment ==
  /\ orch.pc = "comment"
  /\ LET line == CommentLine(orch.text)
     IN orch' = [orch EXCEPT !.pc = IF HasPrefix(line, <<"@">>) THEN "line" ELSE "skipped", !.line = line]
  /\ UNCHANGED fault
  /\ AnnotUnchanged

\* ann := parseAnnotation(line); an annotation without a name is dropped
ParseLine ==
  /\ orch.pc = "line"
  /\ fault = "none"
  /\ LET ann == parseAnnotation(orch.line)
     IN /\ orch' = [orch EXCEPT !.pc = "parsed", !.ann = ann,
                                !.annotations = IF ann.name # <<>> THEN <<ann>> ELSE <<>>]
        /\ fault' = IF Panicked(ann) THEN "panic" ELSE fault
  /\ AnnotUnchanged

NoAnnotation == [name |-> <<>>, params |-> EmptyMap, rawText |-> <<>>]

InitAnnot ==
  /\ pkg = "root"
  /\ nodes = <<>>
  /\ Types = EmptyMap
  /\ ConstsByType = EmptyMap
  /\ stack = <<>>
  /\ cb = IdleCb
  /\ fault = "none"
  /\ phase = "register"
  /\ regs = <<>>
  /\ firstNode = EmptyMap
  /\ keyDenots = EmptyMap
  /\ lastResolve = NoResolve
  /\ \/ \E t \in Texts :
          orch = [pc |-> "comment", text |-> <<"/", "/", " ">> \o t, entries |-> <<>>, line |-> <<>>,
                  ann |-> NoAnnotation, annotations |-> <<>>]
     \/ \E t \in Texts :
          orch = [pc |-> "comment", text |-> <<"/", "/", " ", "@">> \o t, entries |-> <<>>, line |-> <<>>,
                  ann |-> NoAnnotation, annotations |-> <<>>]
     \/ \E entries \in EntryLists :
          orch = [pc |-> "comment", text |-> <<"/", "/", " ">> \o LineOf(entries), entries |-> entries, line |-> <<>>,
                  ann |-> NoAnnotation, annotations |-> <<>>]

NextAnnot ==
  \/ ScanComment
  \/ ParseLine

AnnotSpec == InitAnnot /\ [][NextAnnot]_vars

(***************************************************************************)
(* Doc comments of a declaration                                           *)
(***************************************************************************)

\* a *ast.CommentGroup: nil is TRUE for the nil pointer a declaration without that
\* comment carries in its Doc or Comment field
NilGroup == [nil |-> TRUE, List |-> <<>>]

CommentGroup(list) == [nil |-> FALSE, List |-> list]

\* the annotations of the comments of one group, in order
RECURSIVE GroupAnnotations(_)
GroupAnnotations(list) ==
  IF list = <<>> THEN <<>>
  ELSE LET line == CommentLine(Head(list))
           ann == IF HasPrefix(line, <<"@">>) THEN parseAnnotation(line) ELSE NoAnnotation
       IN (IF ann.name # <<>> THEN <<ann>> ELSE <<>>) \o GroupAnnotations(Tail(list))

\* ParseAnnotations(comments): the loop reads cg.List of every group it is handed,
\* so a nil group ends the call with a nil pointer dereference
RECURSIVE ParseAnnotations(_)
ParseAnnotations(comments) ==
  IF comments = <<>> THEN [fault |-> "none", annotations |-> <<>>]
  ELSE IF Head(comments).nil THEN [fault |-> "nil-deref", annotations |-> <<>>]
  ELSE LET anns == GroupAnnotations(Head(comments).List)
           rest == ParseAnnotations(Tail(comments))
       IN IF \E i \in 1..Len(anns) : Panicked(anns[i])
          THEN [fault |-> "panic", annotations |-> <<>>]
          ELSE [fault |-> rest.fault, annotations |-> IF rest.fault = "none" THEN anns \o rest.annotations ELSE <<>>]

\* AddTypeSpec hands {spec.Doc, genDecl.Doc} to NewTypeInfoFromExpr, which parses the
\* annotations whenever the slice itself is not nil
ParseDocComments ==
  /\ orch.pc = "doc"
  /\ fault = "none"
  /\ LET r == ParseAnnotations(orch.comments)
     IN /\ orch' = [orch EXCEPT !.pc = IF r.fault = "none" THEN "registered" ELSE "crashed",
                                !.annotations = r.annotations]
        /\ fault' = r.fault
  /\ AnnotUnchanged

DocTexts ==
  { <<"/", "/", " ", "d">>,
    <<"/", "/", " ", "@", "s">>,
    <<"/", "/", " ", "@", "s", "(", "a", ")">>,
    <<"/", "*", " ", "@", "t", " ", "x", " ", "*", "/">> }

DocGroups == {NilGroup} \cup {CommentGroup(l) : l \in UNION {[1..k -> DocTexts] : k \in 0..2}}

\* one type declaration with its two comment groups, each present or absent
InitDoc ==
  /\ pkg = "self"
  /\ nodes = <<>>
  /\ Types = EmptyMap
  /\ ConstsByType = EmptyMap
  /\ stack = <<>>
  /\ cb = IdleCb
  /\ fault = "none"
  /\ phase = "register"
  /\ regs = <<>>
  /\ firstNode = EmptyMap
  /\ keyDenots = EmptyMap
  /\ lastResolve = NoResolve
  /\ \E specDoc \in DocGroups, declDoc \in DocGroups :
       orch = [pc |-> "doc", comments |-> <<specDoc, declDoc>>, annotations |-> <<>>]

\* the const groups of the package "enum", one of them `const X int = 1`
InitEnumConsts ==
  /\ pkg = "enum"
  /\ nodes = <<>>
  /\ Types = EmptyMap
  /\ ConstsByType = EmptyMap
  /\ stack = <<>>
  /\ cb = IdleCb
  /\ fault = "none"
  /\ phase = "register"
  /\ regs = <<>>
  /\ firstNode = EmptyMap
  /\ keyDenots = EmptyMap
  /\ lastResolve = NoResolve
  /\ orch = IdleOrch

InitDecl == InitDoc \/ InitEnumConsts

NextDecl ==
  \/ ParseDocComments
  \/ NextConst

DeclSpec == InitDecl /\ [][NextDecl]_vars

\* C28: registering a valid declaration ends without a runtime fault, in particular a
\* declaration without doc comment and a const group with a builtin explicit type
C28_NoRuntimeFault == fault \notin {"nil-deref", "panic"}

(***************************************************************************)
(* Validator                                                               *)
(***************************************************************************)
ValidationModes == {"disabled", "lax", "strict"}

UpperLetters == <<"A", "B", "C", "D", "E", "F", "G", "H", "I", "J", "K", "L", "M", "N", "O", "P", "Q", "R", "S", "T",
                  "U", "V", "W", "X", "Y", "Z">>
LowerLetters == <<"a", "b", "c", "d", "e", "f", "g", "h", "i", "j", "k", "l", "m", "n", "o", "p", "q", "r", "s", "t",
                  "u", "v", "w", "x", "y", "z">>

\* strings.ToLower and strings.EqualFold on ASCII texts
ToLower(s) ==
  [i \in 1..Len(s) |-> IF \E k \in 1..26 : UpperLetters[k] = s[i]
                       THEN LowerLetters[CHOOSE k \in 1..26 : UpperLetters[k] = s[i]] ELSE s[i]]
EqualFold(a, b) == ToLower(a) = ToLower(b)

\* the annotation specifications of the run: @schema with a required parameter role of
\* the enumeration admin / user, also named r, and an optional integer parameter n
AnnotationSpecs ==
  <<[Name |-> <<"s", "c", "h", "e", "m", "a">>, Aliases |-> <<<<"s">>>>,
     Params |-> <<[Name |-> <<"r", "o", "l", "e">>, Aliases |-> <<<<"r">>>>, IsRequired |-> TRUE,
                   EnumValues |-> <<<<"a", "d", "m", "i", "n">>, <<"u", "s", "e", "r">>>>, Types |-> <<<<"e", "n", "u", "m">>>>],
                  [Name |-> <<"n">>, Aliases |-> <<>>, IsRequired |-> FALSE, EnumValues |-> <<>>, Types |-> <<<<"i", "n", "t">>>>]>>]>>

\* a finding the severity of which depends on the mode with an error in every mode
AlwaysError(mode) == "error"

\* severity := "error"; if v.config.ValidateAnnotations == ValidationModeLax { severity = "warning" }
Severity(mode) == IF mode = "lax" THEN "warning" ELSE "error"

\* a ValidationError: what was found, about which parameter, how severe
Finding(kind, param, severity) == [kind |-> kind, param |-> param, severity |-> severity]

\* the loop of ValidateAnnotation over the specifications: a name that matches ends the
\* loop, an alias that matches does not; 0 when nothing matches
RECURSIVE FindAnnotationSpec(_, _, _)
FindAnnotationSpec(name, i, found) ==
  IF i > Len(AnnotationSpecs) THEN found
  ELSE IF EqualFold(AnnotationSpecs[i].Name, name) THEN i
  ELSE FindAnnotationSpec(name, i + 1,
         IF \E a \in 1..Len(AnnotationSpecs[i].Aliases) : EqualFold(AnnotationSpecs[i].Aliases[a], name) THEN i ELSE found)

\* the loop of validateAnnotationParams that looks a parameter's specification up
RECURSIVE FindParamSpec(_, _, _, _)
FindParamSpec(params, paramName, i, found) ==
  IF i > Len(params) THEN found
  ELSE IF paramName = <<>> /\ params[i].Name = <<>> THEN i
  ELSE IF EqualFold(params[i].Name, paramName) THEN i
  ELSE FindParamSpec(params, paramName, i + 1,
         IF \E a \in 1..Len(params[i].Aliases) : EqualFold(params[i].Aliases[a], paramName) THEN i ELSE found)

\* the unknown-parameter check, made in strict mode only
UnknownParams(ann, spec) ==
  {paramName \in DOMAIN ann.params :
     /\ paramName # <<>>
     /\ ~(HasPrefix(paramName, <<"a", "r", "g">>) /\ Len(paramName) > 3 /\ Atoi(SubSeq(paramName, 4, Len(paramName))).ok)
     /\ ~\E i \in 1..Len(spec.Params) :
           \/ EqualFold(spec.Params[i].Name, paramName)
           \/ \E a \in 1..Len(spec.Params[i].Aliases) : EqualFold(spec.Params[i].Aliases[a], paramName)}

\* the required-parameter check: the parameter is looked up by the name of its specification
MissingParams(ann, spec) ==
  {spec.Params[i].Name : i \in {j \in 1..Len(spec.Params) :
     /\ spec.Params[j].IsRequired
     /\ (spec.Params[j].Name \notin DOMAIN ann.params \/ ann.params[spec.Params[j].Name] = <<>>)}}

\* the enumeration check of one value, a bracketed list being checked element by element
EnumValid(paramValue, enumValues) ==
  LET trimmedValue == TrimSpace(paramValue)
      parts == Split(TrimSuffix(TrimPrefix(trimmedValue, <<"[">>), <<"]">>), ",")
      known(v) == \E e \in 1..Len(enumValues) : EqualFold(v, enumValues[e])
  IN IF HasPrefix(trimmedValue, <<"[">>) /\ HasSuffix(trimmedValue, <<"]">>)
     THEN \A p \in 1..Len(parts) : Trim(TrimSpace(parts[p]), Quotes) = <<>> \/ known(Trim(TrimSpace(parts[p]), Quotes))
     ELSE known(paramValue)

\* validateParameterType for the types the specifications of the run declare
validateParameterType(value, paramSpec) ==
  \/ Len(paramSpec.Types) = 0
  \/ \E t \in 1..Len(paramSpec.Types) :
       LET expectedType == ToLower(paramSpec.Types[t])
       IN \/ expectedType \in {<<"s", "t", "r", "i", "n", "g">>, <<"a", "r", "r", "a", "y">>, <<"e", "n", "u", "m">>, <<"n", "u", "l", "l">>}
          \/ expectedType = <<"b", "o", "o", "l">> /\ ToLower(TrimSpace(value)) \in {<<"t", "r", "u", "e">>, <<"f", "a", "l", "s", "e">>, <<"1">>, <<"0">>, <<"y", "e", "s">>, <<"n", "o">>}
          \/ expectedType \in {<<"i", "n", "t">>, <<"i", "n", "t", "e", "g", "e", "r">>} /\ Atoi(value).ok

\* validateAnnotationParams: the findings, in no order (the parameters are a Go map)
validateAnnotationParams(mode, ann, spec) ==
  LET specified == {paramName \in DOMAIN ann.params : FindParamSpec(spec.Params, paramName, 1, 0) # 0}
      specOf(paramName) == spec.Params[FindParamSpec(spec.Params, paramName, 1, 0)]
  IN (IF mode = "strict" THEN {Finding("unknown parameter", p, "error") : p \in UnknownParams(ann, spec)} ELSE {})
     \cup {Finding("required parameter missing", p, Severity(mode)) : p \in MissingParams(ann, spec)}
     \cup {Finding("invalid value", p, Severity(mode)) :
             p \in {q \in specified : Len(specOf(q).EnumValues) > 0 /\ ~EnumValid(ann.params[q], specOf(q).EnumValues)}}
     \cup (IF mode = "strict"
           THEN {Finding("invalid type", p, "warning") : p \in {q \in specified : ~validateParameterType(ann.params[q], specOf(q))}}
           ELSE {})

\* Validator.ValidateAnnotation
ValidateAnnotation(mode, ann) ==
  LET i == FindAnnotationSpec(ann.name, 1, 0)
  IN IF mode = "disabled" THEN {}
     ELSE IF i = 0 THEN IF mode = "strict" THEN {Finding("unknown annotation", <<>>, "error")} ELSE {}
     ELSE validateAnnotationParams(mode, ann, AnnotationSpecs[i])

\* the annotations validated: a name, and values for some of the parameters role, r, n,
\* x and the default parameter
AnnNames == {<<"s", "c", "h", "e", "m", "a">>, <<"S", "c", "h", "e", "m", "a">>, <<"s">>, <<"b", "o", "g", "u", "s">>}
ParamValues(key) ==
  CASE key = <<"r", "o", "l", "e">> -> {<<"a", "d", "m", "i", "n">>, <<"A", "d", "m", "i", "n">>, <<"r", "o", "o", "t">>, <<>>, <<"[", "a", "d", "m", "i", "n", ",", " ", "r", "o", "o", "t", "]">>}
    [] key = <<"r">> -> {<<"u", "s", "e", "r">>}
    [] key = <<"n">> -> {<<"1">>, <<"a">>}
    [] key = <<"x">> -> {<<"1">>}
    [] OTHER -> {<<"a", "d", "m", "i", "n">>}
ParamKeys == {<<"r", "o", "l", "e">>, <<"r">>, <<"n">>, <<"x">>, <<>>}
ParamMaps == UNION {{f \in [keys -> UNION {ParamValues(k) : k \in ParamKeys}] : \A k \in keys : f[k] \in ParamValues(k)} :
                    keys \in SUBSET ParamKeys}

\* v.ValidateAnnotation(ann, location): the findings are appended to v.errors
Validate ==
  /\ orch.pc = "annotation"
  /\ orch' = [orch EXCEPT !.pc = "validated", !.errors = @ \cup ValidateAnnotation(orch.mode, orch.ann)]
  /\ OrchUnchanged

\* Validator.ShouldFail: the run is aborted only for the action fail and a finding of severity error
ShouldFail ==
  /\ orch.pc = "validated"
  /\ orch' = [orch EXCEPT !.pc = IF orch.action = "fail" /\ \E f \in orch.errors : f.severity = "error"
                                 THEN "aborted" ELSE "continued"]
  /\ OrchUnchanged

InitValidate ==
  /\ pkg = "root"
  /\ nodes = <<>>
  /\ Types = EmptyMap
  /\ ConstsByType = EmptyMap
  /\ stack = <<>>
  /\ cb = IdleCb
  /\ fault = "none"
  /\ phase = "register"
  /\ regs = <<>>
  /\ firstNode = EmptyMap
  /\ keyDenots = EmptyMap
  /\ lastResolve = NoResolve
  /\ \E mode \in ValidationModes, action \in {"warn", "fail"}, name \in AnnNames, params \in ParamMaps :
       orch = [pc |-> "annotation", mode |-> mode, action |-> action,
               ann |-> [name |-> name, params |-> params, rawText |-> <<>>], errors |-> {}]

NextValidate ==
  \/ Validate
  \/ ShouldFail

ValidateSpec == InitValidate /\ [][NextValidate]_vars

(***************************************************************************)
(* Properties of the registry                                              *)
(***************************************************************************)
AllTypeDecls == UNION {PackageOf(p).types : p \in Packages}

Registered(name) == \E i \in 1..Len(regs) : regs[i] = name

CName(name) == PkgPath \o "." \o name

\* the fields of a struct declaration whose type is the declaration itself, directly or through a pointer
SelfFields(spec) ==
  IF spec.type.k = "Struct"
  THEN {i \in 1..Len(spec.type.fields) : Denot(spec.type.fields[i].type) = Ident(spec.name)}
  ELSE {}

\* the entries of node n's field list named as field fld
EntriesOf(n, fld) == {j \in 1..Len(n.fields) : n.fields[j].te.name = FieldName(fld)}

\* C1: registering a declaration with a self-typed field never nests a call (the stack of
\* the registration stays one frame deep), and once it is registered the registry node's
\* field list has exactly one entry for that field, whose TypeInfo is the registry node itself
C1_SelfReference ==
  \A spec \in AllTypeDecls : \A i \in SelfFields(spec) :
    /\ (stack # <<>> /\ stack[1].owner = CName(spec.name)) => Len(stack) = 1
    /\ (Idle /\ Registered(spec.name)) =>
         /\ CName(spec.name) \in DOMAIN Types
         /\ LET id == Types[CName(spec.name)]
                fld == spec.type.fields[i]
            IN /\ Cardinality(EntriesOf(nodes[id], fld)) = 1
               /\ \A j \in EntriesOf(nodes[id], fld) : nodes[id].fields[j].te.typeInfo = id

\* D (Next *D) is registered and its Next entry points at the registry node of p.D
C1_Witness ==
  /\ Idle
  /\ Registered("D")
  /\ \E j \in 1..Len(nodes[Types["p.D"]].fields) :
       /\ nodes[Types["p.D"]].fields[j].te.name = "Next"
       /\ nodes[Types["p.D"]].fields[j].te.isPointer
       /\ nodes[Types["p.D"]].fields[j].te.typeInfo = Types["p.D"]

\* C2: after a declaration was registered again, the registry holds under its canonical
\* name the node that the first registration created
C2_ReRegistrationKeepsNode ==
  Idle => \A key \in DOMAIN firstNode : Types[key] = firstNode[key]

NoDup(seq) == \A i, j \in 1..Len(seq) : seq[i] = seq[j] => i = j

\* C3: no registry node's usage list holds two edges for one reference site
\* (referencing canonical name, member name, role)
C3_NoDuplicateUsageEdge ==
  Idle => \A key \in DOMAIN Types :
            NoDup(nodes[Types[key]].usage.referencedIn \o nodes[Types[key]].usage.embeddedIn)

SeqRange(seq) == {seq[i] : i \in 1..Len(seq)}

SigRefs(fi) == {te.typeInfo : te \in SeqRange(fi.parms) \cup SeqRange(fi.returns)}

\* the nodes a node refers to
Refs(n) ==
  ({f.te.typeInfo : f \in SeqRange(n.fields)}
   \cup UNION {SigRefs(m) : m \in SeqRange(n.methods)}
   \cup (IF n.kind = "function" THEN SigRefs(n.functionSig) ELSE {})
   \cup {ev.typeInfo : ev \in SeqRange(n.enumValues)}
   \cup {n.aliasTarget, n.elementType, n.keyType}) \ {0}

InRegistry(id) == nodes[id].cname \in DOMAIN Types /\ Types[nodes[id].cname] = id

\* C4: at the end of the build pass every node a registered node refers to, and every
\* owner of a collected enum value, is the registry entry of its canonical name
C4_ReferencedNodesAreRegistryNodes ==
  phase = "detected" =>
    /\ \A key \in DOMAIN Types : \A r \in Refs(nodes[Types[key]]) : InRegistry(r)
    /\ \A tn \in DOMAIN ConstsByType : \A ev \in SeqRange(ConstsByType[tn]) : InRegistry(ev.typeInfo)

\* C5: two different types are never stored under, or resolved to, one registry key
C5_CanonicalNamesUnique ==
  \A key \in DOMAIN keyDenots : Cardinality(keyDenots[key]) <= 1

\* C6: a node that is being populated is already the registry entry of its canonical name
\* (from the state in which nothing of it is resolved yet), and a GetOrCreateTypeInfo call
\* for the key of a node under construction returns that node, unchanged by the call
C6_CachedBeforePopulated ==
  /\ \A i \in 1..Len(stack) : stack[i].node # 0 => InRegistry(stack[i].node)
  /\ lastResolve.builder # 0 => (lastResolve.id = lastResolve.builder /\ lastResolve.asIs)

\* while D is populated, the resolve call for its field Next *D returned D's skeleton
C6_Witness ==
  /\ Len(stack) = 1
  /\ stack[1].owner = "p.D"
  /\ lastResolve.key = "p.D"
  /\ lastResolve.hit
  /\ lastResolve.builder = stack[1].node
  /\ nodes[stack[1].node].fields # <<>>

\* the frame a statement pushes when its GetOrCreateTypeInfo call creates a struct node
\* that is parsed at once (resolved against an empty cache)
NestedNode(item) ==
  LET r == ItemResolve(EmptyMap, <<>>, item)
  IN IF r.parse THEN r.heap[1] ELSE NilNode

RECURSIVE ItemWeight(_), ParseWeight(_), SumWeights(_)
\* the steps the statements of parseFields(n) take, plus one for entering the branch
ParseWeight(n) == 1 + SumWeights(parseFields(n))

\* the steps one statement can take: itself, and for a nested parse the frame and its return
ItemWeight(item) ==
  IF item.w \in ResolveItems
  THEN IF NestedNode(item).kind = "nil" THEN 1 ELSE 3 + ParseWeight(NestedNode(item))
  ELSE IF item.w = "genericInherit" THEN 2
  ELSE 1

SumWeights(items) == IF items = <<>> THEN 0 ELSE ItemWeight(Head(items)) + SumWeights(Tail(items))

\* the statements of a frame that populates node n: its call of parseFields weighs what
\* the branch for n's kind weighs (taking over the kind of a generic base can add the
\* statement that clears the deferred AST, which the second unit of genericInherit pays for)
RECURSIVE TodoWeight(_, _)
TodoWeight(items, n) ==
  IF items = <<>> THEN 0
  ELSE (IF Head(items).w = "parseFields" THEN ParseWeight(n) ELSE ItemWeight(Head(items)))
       + TodoWeight(Tail(items), n)

FrameWeight(f, heap) ==
  LET n == IF f.node = 0 THEN NilNode ELSE heap[f.node]
  IN 1 + (IF f.todo = <<>> THEN 0
          ELSE IF f.await # -1 THEN 1 + TodoWeight(Tail(f.todo), n)
          ELSE TodoWeight(f.todo, n))

RECURSIVE StackWeight(_, _)
StackWeight(st, heap) == IF st = <<>> THEN 0 ELSE FrameWeight(Head(st), heap) + StackWeight(Tail(st), heap)

\* the steps the running registration can still take
Measure == StackWeight(stack, nodes)

\* C7: every step of a registration strictly decreases a natural-number measure of the
\* work left, so every chain of resolve calls ends after finitely many steps
C7_RegistrationTerminates == [][stack # <<>> => StackWeight(stack', nodes') < Measure]_vars

\* the mutually referencing A and B, and the interfaces I and J, are registered
C7_Witness ==
  /\ Idle
  /\ \/ Registered("A") /\ Registered("B")
     \/ Registered("I") /\ Registered("J")
  /\ \E key \in DOMAIN Types : Len(nodes[Types[key]].usage.referencedIn) >= 2

(***************************************************************************)
(* Properties of constant groups                                           *)
(***************************************************************************)
\* the values collected for a type, in declaration order
Values(typeName) ==
  IF typeName \in DOMAIN ConstsByType
  THEN [i \in 1..Len(ConstsByType[typeName]) |-> ConstsByType[typeName][i].value]
  ELSE <<>>

\* AddConstBlock ran to its end on the group g
GroupDone(g) == ~cb.active /\ cb.decl = g

\* the value v is the number n, as an integer or as the text of one
Numeric(v, n) == (v.t = "int" /\ v.n = n) \/ (v.t = "string" /\ Atoi(v.s).ok /\ Atoi(v.s).n = n)

\* const ( A Color = 5; B; C )
GroupABC == <<ValueSpec(<<"A">>, Ident("Color"), <<LitFive>>),
              ValueSpec(<<"B">>, NilAst, <<>>),
              ValueSpec(<<"C">>, NilAst, <<>>)>>

\* C8: for the group A = 5, B, C of one type the values collected are 5, 6, 7 in declaration order
C8_ExplicitStartContinues ==
  GroupDone(GroupABC) =>
    /\ Len(Values("p.Color")) = Len(GroupABC)
    /\ Numeric(Values("p.Color")[1], 5)
    /\ Numeric(Values("p.Color")[2], 6)
    /\ Numeric(Values("p.Color")[3], 7)

\* the member that the next loop iteration handles has a literal value without the
\* marker, and is stored (a type is known for it)
LiteralStep ==
  /\ cb.active
  /\ cb.specs # <<>>
  /\ Len(Head(cb.specs).values) = 1
  /\ Head(cb.specs).values[1].k = "BasicLit"
  /\ ~Contains(Head(cb.specs).values[1].value, IotaStr)
  /\ (Head(cb.specs).type.k # "nil" \/ cb.currentTypeName # "")

\* the text of a literal: a string literal's text is what is between its quotes
LiteralText(e) == IF e.kind = "STRING" THEN SubSeq(e.value, 2, Len(e.value) - 1) ELSE e.value

\* the counter and the pattern a member starts from: an explicit type resets both
BaseIota == IF Head(cb.specs).type.k # "nil" THEN 0 ELSE cb.iotaValue
BasePattern == IF Head(cb.specs).type.k # "nil" THEN <<>> ELSE cb.lastIotaExpr

\* the step stored the literal of the member as the last value of its type
StoredLiterally ==
  /\ Values(cb.currentTypeName)' # <<>>
  /\ Values(cb.currentTypeName)'[Len(Values(cb.currentTypeName)')] = StringVal(LiteralText(Head(cb.specs).values[1]))

GroupPatternLiteral == <<ValueSpec(<<"A">>, Ident("Color"), <<IotaPlusFive>>),
                         ValueSpec(<<"B">>, NilAst, <<LitFive>>),
                         ValueSpec(<<"C">>, NilAst, <<>>)>>

C10_GreenIsNotCounted ==
  (~cb.active /\ "p.Color" \in DOMAIN ConstsByType) =>
    \A i \in 1..Len(ConstsByType["p.Color"]) :
      ConstsByType["p.Color"][i].name = "Green" => ConstsByType["p.Color"][i].value.t # "int"

\* the number of members of the running group that the loop has handled
Processed == Len(cb.decl) - Len(cb.specs)

\* the last member up to member i that carries an explicit type (0 = none)
Anchor(i) ==
  IF \E j \in 1..i : cb.decl[j].type.k # "nil"
  THEN CHOOSE j \in 1..i : cb.decl[j].type.k # "nil" /\ \A h \in (j + 1)..i : cb.decl[h].type.k = "nil"
  ELSE 0

\* the type member i belongs to: the type of its anchor, qualified unless it is builtin
TypeOfMember(i) ==
  IF Anchor(i) = 0 THEN ""
  ELSE LET t == cb.decl[Anchor(i)].type.name
       IN IF t \in BasicTypes THEN t ELSE CName(t)

\* the handled members that belong to type typeName, in declaration order
MembersOf(typeName) ==
  SelectSeq([i \in 1..Processed |-> i], LAMBDA i : TypeOfMember(i) = typeName)

C12_ConstantsMakeEnums ==
  phase = "detected" =>
    \A typeName \in DOMAIN ConstsByType :
      /\ ConstsByType[typeName] # <<>>
      /\ typeName \in DOMAIN Types
      /\ nodes[Types[typeName]].kind = "enum"
      /\ nodes[Types[typeName]].enumValues = ConstsByType[typeName]

\* Color was declared after its constants: the declared node, not the placeholder, is the enum
C12_Witness ==
  /\ phase = "detected"
  /\ regs = <<"const Color", "Color">>
  /\ nodes[Types["p.Color"]].kind = "enum"
  /\ nodes[Types["p.Color"]].typeSpec.isSpec
  /\ Len(nodes[Types["p.Color"]].enumValues) = Len(BlockColor.specs)

(***************************************************************************)
(* Properties of generic instantiations                                    *)
(***************************************************************************)
\* position i of node n's argument list is the type called name: as a resolved node, or
\* as the reference recorded for that position
ArgumentIs(n, i, name) ==
  \/ i <= Len(n.typeArguments) /\ n.typeArguments[i] # 0 /\ nodes[n.typeArguments[i]].cname = name
  \/ Len(n.typeArgumentRefs) = Len(n.typeArguments) /\ i <= Len(n.typeArgumentRefs) /\ n.typeArgumentRefs[i] = name

\* C13: the node of XNode = Node[Character, int] has an argument list of exactly two
\* entries, Character at the first position and int at the second
C13_EveryArgumentAtItsPosition ==
  (Idle /\ Registered("XNode")) =>
    /\ Len(nodes[Types["p.XNode"]].typeArguments) = Len(NodeOfCharacterInt.indices)
    /\ ArgumentIs(nodes[Types["p.XNode"]], 1, "p.Character")
    /\ ArgumentIs(nodes[Types["p.XNode"]], 2, "int")

\* C14: once the base declaration Node is registered too, every instantiation in the
\* registry, declared by name or met as the type of a field or parameter, refers back to
\* a base node and has the kind, the field list and the method list of the registered base
C14_InstantiationCopiesBase ==
  (Idle /\ Registered("Node")) =>
    \A key \in DOMAIN Types :
      nodes[Types[key]].isGenericInstantiation =>
        /\ nodes[Types[key]].baseGenericType # 0
        /\ nodes[Types[key]].kind = nodes[Types["p.Node"]].kind
        /\ nodes[Types[key]].fields = nodes[Types["p.Node"]].fields
        /\ nodes[Types[key]].methods = nodes[Types["p.Node"]].methods


(***************************************************************************)
(* Usage edges                                                             *)
(***************************************************************************)
\* a type expression that names a declared type, directly or through a pointer
NamesType(type) == Denot(type).k = "Ident" /\ ~IsBasicType(Denot(type).name)

\* the usage record of the registry node of the type an expression names
UsageOf(type) == nodes[Types[CName(Denot(type).name)]].usage

\* the registry node of the type carries the edge of a field of a struct declaration
FieldSiteHasEdge(spec, fld) ==
  /\ CName(Denot(fld.type).name) \in DOMAIN Types
  /\ IF fld.names = <<>>
     THEN ReferenceInfo(CName(spec.name), "", "embedded") \in SeqRange(UsageOf(fld.type).embeddedIn)
     ELSE ReferenceInfo(CName(spec.name), FieldName(fld), "field") \in SeqRange(UsageOf(fld.type).referencedIn)

\* the registry node of the type carries the edge of a parameter or result of a function
SignatureSiteHasEdge(fd, p, role) ==
  /\ CName(Denot(p.type).name) \in DOMAIN Types
  /\ ReferenceInfo(CName(fd.name), p.name, role) \in SeqRange(UsageOf(p.type).referencedIn)

\* C15: at the end of the run the registry node of each referenced canonical name carries
\* an edge (referencing canonical name, member name, role) for every field, embedded type,
\* parameter and result of a registered declaration that names it
C15_EveryReferenceSiteHasEdge ==
  phase = "detected" =>
    /\ \A spec \in PackageOf(pkg).types :
         (Registered(spec.name) /\ spec.type.k = "Struct") =>
           \A fld \in SeqRange(spec.type.fields) : NamesType(fld.type) => FieldSiteHasEdge(spec, fld)
    /\ \A fd \in PackageOf(pkg).funcs :
         Registered(fd.name) =>
           /\ \A p \in SeqRange(fd.params) : NamesType(p.type) => SignatureSiteHasEdge(fd, p, "parameter")
           /\ \A p \in SeqRange(fd.results) : NamesType(p.type) => SignatureSiteHasEdge(fd, p, "return")


\* C16: in every state of a run (after every usage-tracking operation, and after the final
\* pass over the registry) the embedded-only flag of each registry node is true exactly
\* when its usage record holds at least one embedded edge and no field, parameter or
\* return edge, and recomputing the flag changes neither the edges nor the flag
C16_EmbeddedOnlyFlag ==
  \A key \in DOMAIN Types :
    LET u == nodes[Types[key]].usage
    IN /\ u.isOnlyEmbedded <=> (Len(u.embeddedIn) > 0 /\ Len(u.referencedIn) = 0)
       /\ \A e \in SeqRange(u.embeddedIn) : e.kind = "embedded"
       /\ \A e \in SeqRange(u.referencedIn) : e.kind \in {"field", "parameter", "return"}
       /\ UpdateUsageFlags(u) = u
       /\ UpdateUsageFlags(UpdateUsageFlags(u)) = u

\* after the final pass util.U, embedded in O and referenced nowhere else, is embedded-only,
\* and xm.Thing, the type of a field of O, is not
C16_Witness ==
  /\ phase = "flags"
  /\ "ex.com/m/util.U" \in DOMAIN Types
  /\ "gh.com/x/models.Thing" \in DOMAIN Types
  /\ nodes[Types["ex.com/m/util.U"]].usage.embeddedIn = <<ReferenceInfo("ex.com/m/other.O", "", "embedded")>>
  /\ nodes[Types["ex.com/m/util.U"]].usage.isOnlyEmbedded
  /\ nodes[Types["gh.com/x/models.Thing"]].usage.referencedIn # <<>>
  /\ ~nodes[Types["gh.com/x/models.Thing"]].usage.isOnlyEmbedded


(***************************************************************************)
(* Phases of a run                                                         *)
(***************************************************************************)
\* a step in which detectEnums runs: ParsePackage of some package returns
EnumDetectionStep == phase = "register" /\ (pkg' # pkg \/ phase' = "detected")

\* C17: the phases of a run are strictly ordered over the whole input: enum detection runs
\* only when no configured root is left to register, the usage flags are finalized only
\* after enum detection, and classification and depth only after that
C17_PhasesInOrder ==
  [][/\ EnumDetectionStep => NextRoot(pkg) = ""
     /\ phase' # phase => \/ phase = "register" /\ phase' = "detected"
                          \/ phase = "detected" /\ phase' = "flags"
                          \/ phase = "flags" /\ phase' = "included"
                          \/ phase = "included" /\ phase' = "depths"]_vars


(***************************************************************************)
(* Depth and include type                                                  *)
(***************************************************************************)
ScannedNames == {key \in DOMAIN Types : nodes[Types[key]].includeType = "scanned"}

\* the registry names the registry node of a name refers to structurally
StructuralRefs(key) ==
  LET n == nodes[Types[key]]
  IN {nodes[r].cname : r \in Refs(n) \cup (SeqRange(n.typeArguments) \ {0})} \cap DOMAIN Types

\* the registry names at most k structural edges away from a Scanned node
RECURSIVE Within(_)
Within(k) ==
  IF k = 0 THEN ScannedNames
  ELSE Within(k - 1) \cup UNION {StructuralRefs(key) : key \in Within(k - 1)}

\* the length of the shortest structural path from a Scanned node, or -1 without one
Distance(key) ==
  LET ks == {k \in 0..Cardinality(DOMAIN Types) : key \in Within(k)}
  IN IF ks = {} THEN -1 ELSE CHOOSE k \in ks : \A h \in ks : k <= h

\* C18: after the depth phase every Scanned registry node has depth 0, every other node
\* reachable from a Scanned node has the length of the shortest structural path as its
\* depth, and every node that is not reachable, a function node included, has depth -1
C18_DepthIsDistance ==
  phase = "depths" => \A key \in DOMAIN Types : nodes[Types[key]].depth = Distance(key)


\* the packages the patterns of the current run loaded
RunRoots == UNION {RootsFrom(f) : f \in {g \in FirstRoots : pkg \in RootsFrom(g)}}

\* the package path is that of a configured root
InsideRoot(pkgPath) == \E r \in RunRoots : PathOf(r) = pkgPath

\* the package path is the module's path or lies under it
InModule(pkgPath) == pkgPath = ModulePath \/ HasPrefix(pkgPath, ModulePath \o "/")

\* the first element of a standard library import path has no dot
InStandardLibrary(pkgPath) ==
  LET slashes == {i \in 1..Len(pkgPath) : SubSeq(pkgPath, i, i) = "/"}
      first == IF slashes = {} THEN pkgPath
               ELSE SubSeq(pkgPath, 1, (CHOOSE i \in slashes : \A j \in slashes : i <= j) - 1)
  IN ~Contains(first, ".")

\* the include type the precedence Scanned > Local > Std > External gives a package
IncludeTypeOf(pkgPath) ==
  IF InsideRoot(pkgPath) THEN "scanned"
  ELSE IF InModule(pkgPath) THEN "local"
  ELSE IF InStandardLibrary(pkgPath) THEN "std"
  ELSE "external"

\* C19: after the classification phase every registry node has exactly one include
\* type: Scanned if its package is inside a configured root, otherwise Local if it is
\* in the module, otherwise Std if it is in the standard library, otherwise External
C19_IncludeTypeByPrecedence ==
  phase \in {"included", "depths"} =>
    \A key \in DOMAIN Types : nodes[Types[key]].includeType = IncludeTypeOf(nodes[Types[key]].pkgPath)


(***************************************************************************)
(* Referenced mode                                                         *)
(***************************************************************************)
\* C20: for the chain S -> A -> B with seed S the output of a generation in referenced
\* mode holds S and A but not B when max-depth is 1, and S, A and B when max-depth is 2
C20_MaxDepthBoundsOutput ==
  orch.pc = "done" =>
    /\ orch.maxDepth = 1 => ({"S", "A"} \subseteq orch.output /\ "B" \notin orch.output)
    /\ orch.maxDepth = 2 => {"S", "A", "B"} \subseteq orch.output

\* C21: with max-depth 0 every declaration transitively referenced from the seed is
\* discovered when parseReferencedTypes has returned, whatever the length of the chain
C21_ZeroMeansUnlimited ==
  (orch.pc \in {"extracted", "closed", "done"} /\ orch.maxDepth = 0) => WorldTypes(orch.world) \subseteq orch.parsed

\* the value a plugin's map sets a key to, or the root's value when the map does not set it
Explicit(m, key, rootValue) == IF m.present /\ key \in m.has THEN m[key] ELSE rootValue

\* C22: the merged configuration carries, field by field, the override's value where the
\* override sets the field and the root's value where it does not
C22_OverrideWinsOnExplicitField ==
  orch.pc \in {"autogen", "filtered", "failed", "generated"} =>
    LET ra == orch.root.autoGen
        rs == orch.root.scan
        pa == orch.plugin.autoGen
        ps == orch.plugin.scan
    IN /\ orch.autoGenConfig.Enabled = Explicit(pa, "enabled", ra.Enabled)
       /\ orch.autoGenConfig.Strategy = Explicit(pa, "strategy", ra.Strategy)
       /\ orch.autoGenConfig.MaxDepth = Explicit(pa, "max_depth", ra.MaxDepth)
       /\ orch.autoGenConfig.Patterns = Explicit(pa, "patterns", ra.Patterns)
       /\ orch.autoGenConfig.IncludeEmbedded = ra.IncludeEmbedded
       /\ orch.scanOptions.Structs = Explicit(ps, "structs", rs.Structs)
       /\ orch.scanOptions.FunctionBodies = Explicit(ps, "function_bodies", rs.FunctionBodies)
       /\ orch.scanOptions.Enums = rs.Enums
       /\ orch.scanOptions.Functions = rs.Functions

\* the configuration of the run names a scan mode or a strategy outside the defined set
InvalidConfig ==
  \/ Explicit(orch.plugin.scan, "structs", orch.root.scan.Structs) \notin ScanModes
  \/ Explicit(orch.plugin.autoGen, "strategy", orch.root.autoGen.Strategy) \notin Strategies

\* C23: a run whose configuration names an invalid scan mode or strategy filters nothing
\* and hands nothing to the plugin
C23_InvalidConfigAborts ==
  InvalidConfig => orch.pc \notin {"filtered", "generated"}

\* the parameters a list of generated entries stands for: a pair sets its key, a bare
\* token of flag characters is a flag, every other bare or quoted token is appended to the
\* positional value under the empty key; st = [params, positional]
RECURSIVE ExpectedParams(_, _)
ExpectedParams(entries, st) ==
  IF entries = <<>> THEN st.params
  ELSE LET e == Head(entries)
       IN ExpectedParams(Tail(entries),
            CASE e.kind = "pair" -> [st EXCEPT !.params = ParamSet(@, e.key, e.value)]
              [] e.kind = "bare" /\ \A i \in 1..Len(e.value) : e.value[i] \in FlagChars ->
                   [st EXCEPT !.params = ParamSet(@, e.value, <<"t", "r", "u", "e">>)]
              [] OTHER ->
                   [params |-> ParamSet(st.params, <<>>,
                                        IF st.positional = 0 THEN e.value ELSE st.params[<<>>] \o <<",">> \o e.value),
                    positional |-> st.positional + 1])

\* a generated list without escapes has been parsed
ParsedEntries == orch.pc = "parsed" /\ orch.entries # <<>> /\ \A i \in 1..Len(orch.entries) : orch.entries[i] \in Shapes

C25_EscapedQuoteKeepsString ==
  (orch.pc = "parsed" /\ orch.entries # <<>> /\ orch.entries[1] \in EscapedShapes) =>
    /\ DOMAIN orch.ann.params = {orch.entries[1].key}
    /\ \E i \in 1..Len(orch.ann.params[orch.entries[1].key]) : orch.ann.params[orch.entries[1].key][i] = ","

\* C26: no text makes the parser fail: every line yields an annotation, with an empty
\* name and no entry in the result when the line has no name
C26_ParsingNeverFails ==
  /\ fault = "none"
  /\ orch.pc = "parsed" =>
       /\ ~Panicked(orch.ann)
       /\ orch.ann.rawText = orch.line
       /\ orch.annotations = IF orch.ann.name = <<>> THEN <<>> ELSE <<orch.ann>>

\* @(" has no name, an open parenthesis and an open quote, and parses to an empty annotation
C26_Witness ==
  /\ orch.pc = "parsed"
  /\ orch.line = <<"@", "(", "\"">>
  /\ orch.ann.name = <<>>
  /\ orch.annotations = <<>>
  /\ fault = "none"

\* the findings of a strict validation of the annotation under validation
StrictFindings == ValidateAnnotation("strict", orch.ann)

\* a lax validation has run
LaxValidated == orch.pc \in {"validated", "aborted", "continued"} /\ orch.mode = "lax"

\* C27 as stated: every finding a strict validation records with severity error is
\* recorded by the lax one with severity warning, and the lax one records no error
C27_LaxDowngradesEveryError ==
  LaxValidated =>
    /\ \A f \in StrictFindings : f.severity = "error" => [f EXCEPT !.severity = "warning"] \in orch.errors
    /\ \A f \in orch.errors : f.severity # "error"

\* C27, amended: the lax validation records exactly the strict one's findings of a missing
\* required parameter and of a value outside the enumeration, each as a warning; the
\* strict findings of an unknown annotation or parameter are not recorded at all
C27_LaxDowngradesParamErrors ==
  LaxValidated =>
    /\ orch.errors = {[f EXCEPT !.severity = "warning"] :
                        f \in {g \in StrictFindings : g.kind \in {"required parameter missing", "invalid value"}}}
    /\ \A f \in StrictFindings : f.kind \in {"required parameter missing", "invalid value"} => f.severity = "error"
    /\ \A f \in StrictFindings : f.kind \in {"unknown annotation", "unknown parameter"} =>
         f.severity = "error" /\ \A g \in orch.errors : g.kind # f.kind

\* the lax validation of @schema(role: root, x: 1): the value outside the enumeration
\* is a warning, the unknown parameter x is passed over
C27_Witness ==
  /\ LaxValidated
  /\ Finding("invalid value", <<"r", "o", "l", "e">>, "warning") \in orch.errors
  /\ Finding("unknown parameter", <<"x">>, "error") \in StrictFindings
  /\ \A f \in orch.errors : f.kind # "unknown parameter"


(***************************************************************************)
(* Scan modes of ParsePackage                                              *)
(***************************************************************************)

\* a type declaration of the scanned package: its name, the shape of its type and the
\* type names its body mentions
TypeDecl(name, kind, refs) == [name |-> name, kind |-> kind, refs |-> refs]

ScanPackages ==
  { {TypeDecl("A", "struct", ra), TypeDecl("B", kb, rb), TypeDecl("I", "interface", ri)} :
      ra \in SUBSET {"B", "I"}, kb \in {"struct", "alias"}, rb \in SUBSET {"A"}, ri \in SUBSET {"A", "B"} }

\* the scan mode of the category of a declaration: everything that is neither a struct
\* nor an interface goes by the struct setting
ModeOf(d, o) == IF d.kind = "interface" THEN o.Interfaces ELSE o.Structs

\* shouldScanType under the scan options o
shouldScanTypeIn(d, o) == ModeOf(d, o) \notin {"none", "disabled"}

\* isReferencedMode, over the two categories of type declarations
isReferencedMode(o) == o.Structs = "referenced" \/ o.Interfaces = "referenced"

\* every *ast.Ident of the file: the names of the declarations and the names they mention
Idents(decls) == UNION {{d.name} \cup d.refs : d \in decls}

\* the nodes AddTypeSpec leaves in the registry: the declaration and, through resolve on
\* the types of its members, every declaration reachable from it
RECURSIVE Reached(_, _)
Reached(decls, names) ==
  LET more == names \cup UNION {d.refs : d \in {e \in decls : e.name \in names}}
  IN IF more = names THEN names ELSE Reached(decls, more)

AddTypeSpecs(decls, o, chosen) ==
  Reached(decls, {d.name : d \in {e \in chosen : shouldScanTypeIn(e, o)}})

ScanUnchanged == UNCHANGED <<pkg, nodes, Types, ConstsByType, stack, cb, fault, phase, regs, firstNode, keyDenots, lastResolve>>

\* parsePackageNormalMode: every type declaration goes to AddTypeSpec
ParseNormalMode ==
  /\ orch.pc = "package"
  /\ ~isReferencedMode(orch)
  /\ orch' = [orch EXCEPT !.pc = "parsed", !.registered = AddTypeSpecs(orch.decls, orch, orch.decls)]
  /\ ScanUnchanged

\* pass 1 of parsePackageReferencedMode: the declarations whose category is in mode all
CollectDeclared ==
  /\ orch.pc = "package"
  /\ isReferencedMode(orch)
  /\ orch' = [orch EXCEPT !.pc = "declared",
                          !.declaredTypes = {d.name : d \in {e \in orch.decls : ModeOf(e, orch) = "all"}}]
  /\ ScanUnchanged

\* pass 2, collectReferencedTypes: an identifier counts when it names a collected declaration
CollectReferenced ==
  /\ orch.pc = "declared"
  /\ orch' = [orch EXCEPT !.pc = "referenced",
                          !.referencedTypes = Idents(orch.decls) \cap orch.declaredTypes]
  /\ ScanUnchanged

\* pass 3: a declaration is processed in mode all, or in mode referenced when pass 2 marked it
ProcessDeclared ==
  /\ orch.pc = "referenced"
  /\ LET chosen == {d \in orch.decls :
                      \/ ModeOf(d, orch) = "all"
                      \/ ModeOf(d, orch) = "referenced" /\ d.name \in orch.referencedTypes}
     IN orch' = [orch EXCEPT !.pc = "parsed", !.registered = AddTypeSpecs(orch.decls, orch, chosen)]
  /\ ScanUnchanged

InitScan ==
  /\ pkg = "root"
  /\ nodes = <<>>
  /\ Types = EmptyMap
  /\ ConstsByType = EmptyMap
  /\ stack = <<>>
  /\ cb = IdleCb
  /\ fault = "none"
  /\ phase = "register"
  /\ regs = <<>>
  /\ firstNode = EmptyMap
  /\ keyDenots = EmptyMap
  /\ lastResolve = NoResolve
  /\ \E decls \in ScanPackages, structs \in ScanModes, interfaces \in ScanModes :
       orch = [pc |-> "package", decls |-> decls, Structs |-> structs, Interfaces |-> interfaces,
               declaredTypes |-> {}, referencedTypes |-> {}, registered |-> {}]

NextScan ==
  \/ ParseNormalMode
  \/ CollectDeclared
  \/ CollectReferenced
  \/ ProcessDeclared

ScanSpec == InitScan /\ [][NextScan]_vars

\* a declaration that another declaration of the package mentions by name
ReferencedByName(d, decls) == \E e \in decls : e.name # d.name /\ d.name \in e.refs

\* C29: with the struct or interface scan mode set to referenced, every declaration of
\* that category that another declaration of the package mentions by name is registered
C29_ReferencedModeRegisters ==
  orch.pc = "parsed" =>
    \A d \in orch.decls :
      (ModeOf(d, orch) = "referenced" /\ ReferencedByName(d, orch.decls)) => d.name \in orch.registered


(***************************************************************************)
(* Loading external packages                                               *)
(***************************************************************************)

MaxCalls == 3

ExternalPaths == {"p1", "p2", "gone"}
ExternalTypeNames == {"T", "U"}

\* the type declarations of the external packages; nothing can be loaded from "gone"
DeclaredIn(pkgPath) == IF pkgPath = "p1" THEN {"T"} ELSE IF pkgPath = "p2" THEN {"U"} ELSE {}

\* the outcomes of packages.Load: an error, an empty list, or the package
LoadOutcomes(pkgPath) == IF pkgPath = "gone" THEN {"error", "empty"} ELSE {"error", "empty", "ok"}

NoCall == [key |-> "", ok |-> FALSE, failedBefore |-> FALSE, loaded |-> FALSE]

LoadUnchanged == UNCHANGED <<pkg, nodes, Types, ConstsByType, stack, cb, fault, phase, regs, firstNode, keyDenots, lastResolve>>

\* LoadExternalPackage(pkgPath): the path is marked before packages.Load is called, and
\* neither error return takes the mark back
LoadExternalPackage(pkgPath) ==
  /\ orch.pc = "parser"
  /\ orch.calls < MaxCalls
  /\ IF pkgPath \in orch.loadedExternalPkgs
     THEN orch' = [orch EXCEPT !.calls = @ + 1,
                              !.last = [key |-> pkgPath, ok |-> TRUE, failedBefore |-> pkgPath \in orch.failed,
                                        loaded |-> pkgPath \in orch.packagePaths]]
     ELSE \E outcome \in LoadOutcomes(pkgPath) :
            orch' = [orch EXCEPT !.calls = @ + 1,
                                 !.loadedExternalPkgs = @ \cup {pkgPath},
                                 !.packagePaths = IF outcome = "ok" THEN @ \cup {pkgPath} ELSE @,
                                 !.files = IF outcome = "ok" THEN @ \cup DeclaredIn(pkgPath) ELSE @,
                                 !.failed = IF outcome = "ok" THEN @ ELSE @ \cup {pkgPath},
                                 !.last = [key |-> pkgPath, ok |-> outcome = "ok",
                                           failedBefore |-> pkgPath \in orch.failed, loaded |-> outcome = "ok"]]
  /\ LoadUnchanged

\* LoadExternalType(pkgPath, typeName) on the parser's own cache: the key pkgPath.typeName
\* is marked and the type is recorded as requested before packages.Load is called
LoadExternalTypeCached(pkgPath, typeName) ==
  /\ orch.pc = "parser"
  /\ orch.calls < MaxCalls
  /\ LET cacheKey == pkgPath \o "." \o typeName
     IN IF cacheKey \in orch.loadedExternalPkgs
        THEN orch' = [orch EXCEPT !.calls = @ + 1,
                                 !.last = [key |-> cacheKey, ok |-> TRUE, failedBefore |-> cacheKey \in orch.failed,
                                           loaded |-> pkgPath \in orch.packagePaths]]
        ELSE \E outcome \in LoadOutcomes(pkgPath) :
               orch' = [orch EXCEPT !.calls = @ + 1,
                                    !.loadedExternalPkgs = @ \cup {cacheKey},
                                    !.requestedExternalTypes = @ \cup {typeName},
                                    !.packagePaths = IF outcome = "ok" THEN @ \cup {pkgPath} ELSE @,
                                    !.files = IF outcome = "ok" /\ typeName \in DeclaredIn(pkgPath) THEN @ \cup {typeName} ELSE @,
                                    !.failed = IF outcome = "ok" THEN @ ELSE @ \cup {cacheKey},
                                    !.last = [key |-> cacheKey, ok |-> outcome = "ok",
                                              failedBefore |-> cacheKey \in orch.failed, loaded |-> outcome = "ok"]]
  /\ LoadUnchanged

\* NewParser: empty maps
InitLoad ==
  /\ pkg = "root"
  /\ nodes = <<>>
  /\ Types = EmptyMap
  /\ ConstsByType = EmptyMap
  /\ stack = <<>>
  /\ cb = IdleCb
  /\ fault = "none"
  /\ phase = "register"
  /\ regs = <<>>
  /\ firstNode = EmptyMap
  /\ keyDenots = EmptyMap
  /\ lastResolve = NoResolve
  /\ orch = [pc |-> "parser", calls |-> 0, loadedExternalPkgs |-> {}, requestedExternalTypes |-> {},
             packagePaths |-> {}, files |-> {}, failed |-> {}, last |-> NoCall]

NextLoad ==
  \/ \E pkgPath \in ExternalPaths : LoadExternalPackage(pkgPath)
  \/ \E pkgPath \in ExternalPaths, typeName \in ExternalTypeNames : LoadExternalTypeCached(pkgPath, typeName)

LoadSpec == InitLoad /\ [][NextLoad]_vars

\* C30: after a call of LoadExternalPackage or LoadExternalType failed for a path, a later
\* call for the same path reports success only when the package was loaded
C30_NoSuccessAfterFailedLoad ==
  (orch.last.ok /\ orch.last.failedBefore) => orch.last.loaded

============================================================================
